---- MODULE Spec2Model ----
(***************************************************************************)
(* Authentication, session and request-governance core of shell-history:   *)
(* the in-memory RateLimiter, the login flow, the SessionManager over      *)
(* itsdangerous' TimestampSigner, and get_current_user.                     *)
(***************************************************************************)
EXTENDS FiniteSets, Integers, Sequences, TLC

VARIABLES
    clock,      \* time.time(), in whole seconds
    requests,   \* RateLimiter._requests: key -> list of admitted timestamps
    policy,     \* the (max_requests, window_seconds) the limiter is called with
    pc,         \* position of each request coroutine
    loc,        \* locals of each request coroutine (key, now, cutoff, result)
    running,    \* the coroutine that holds the event loop, or NoCoro
    log,        \* per key, the is_allowed calls that have returned, in order
    users,      \* the users table: id -> row
    api_keys,   \* the api_keys table: rows in primary-key order
    issued,     \* the session tokens create_session has returned so far
    streak,     \* per login key: the calls since one found its history empty
    ret,        \* the last call of a handler or service method, with its result
    csrf_issued,  \* the tokens generate_token has returned, with their submissions
    commands,   \* the commands table
    hosts,      \* the hosts table
    index,      \* the documents of the search index
    email_tokens, \* the email_verification_tokens table, in insertion order
    password_reset_tokens, \* the password_reset_tokens table, in insertion order
    flashed,    \* the cookie values set_flash has returned
    shown,      \* per API key row, the responses that carried its plaintext
    trail       \* per session token: what has happened to its owner since issue

dbVars == <<users, api_keys, issued, streak, ret>>
appVars == <<csrf_issued, commands, hosts, index, email_tokens, password_reset_tokens, flashed, shown, trail>>
vars == <<clock, requests, policy, pc, loc, running, log, users, api_keys, issued,
          streak, ret, csrf_issued, commands, hosts, index, email_tokens, password_reset_tokens, flashed, shown,
          trail>>

\* The tables and ghosts no request has touched yet
EmptyTables ==
    /\ csrf_issued = {}
    /\ commands = <<>>
    /\ hosts = <<>>
    /\ index = {}
    /\ email_tokens = <<>>
    /\ password_reset_tokens = <<>>
    /\ flashed = {}
    /\ shown = <<>>
    /\ trail = <<>>

----------------------------------------------------------------------------
(* Bounds of the rate-limiter model *)

MaxTime == 3
MaxN == 2
MaxW == 2
MaxCalls == 4

Keys == {"k1", "k2"}
Coros == {"c1", "c2"}
NoCoro == "none"
AllPcs == {"idle", "ready", "L37", "L41", "L45", "ret"}

Max(a, b) == IF a >= b THEN a ELSE b

SelectSeqGt(s, cutoff) ==
    LET Kept(req_time) == req_time > cutoff IN SelectSeq(s, Kept)

SelectSeqGe(s, cutoff) ==
    LET Kept(req_time) == req_time >= cutoff IN SelectSeq(s, Kept)

----------------------------------------------------------------------------
(* RateLimiter.is_allowed, line by line *)

\* requests[:] = [req_time for req_time in requests if req_time > cutoff]
PruneKeepsBoundary(reqs, cutoff) == SelectSeqGe(reqs, cutoff)
Prune(reqs, cutoff) == SelectSeqGt(reqs, cutoff)

\* if len(requests) >= max_requests
AtLimit(reqs, max_requests) == Len(reqs) >= max_requests

\* remaining = max(0, max_requests - len(requests)), after the append
RemainingBeforeAppend(reqs, max_requests) == Max(0, max_requests - Len(reqs) + 1)
Remaining(reqs, max_requests) == Max(0, max_requests - Len(reqs))

\* The positions at which a request coroutine is suspended and another one may
\* run: is_allowed and its callers hold no await between entry and return.
YieldPointsPreemptive == AllPcs
YieldPoints == {"idle", "ready"}

Holds(c) == running \in {NoCoro, c}
Release(c, nextpc) == IF nextpc \in YieldPoints THEN NoCoro ELSE c

InFlight == {c \in Coros : pc[c] # "idle"}
Returned == Len(log["k1"]) + Len(log["k2"])

NoLocals == [key |-> "k1", now |-> 0, cutoff |-> 0, allowed |-> FALSE, remaining |-> 0]

\* A request for key k reaches the server and waits for the event loop.
Arrive(c, k) ==
    /\ pc[c] = "idle"
    /\ Returned + Cardinality(InFlight) < MaxCalls
    /\ pc' = [pc EXCEPT ![c] = "ready"]
    /\ loc' = [loc EXCEPT ![c] = [NoLocals EXCEPT !.key = k]]
    /\ UNCHANGED <<clock, requests, policy, running, log>>
    /\ UNCHANGED dbVars
    /\ UNCHANGED appVars

\* now = time.time(); cutoff = now - window_seconds
IsAllowedEnter(c) ==
    /\ pc[c] = "ready"
    /\ Holds(c)
    /\ loc' = [loc EXCEPT ![c].now = clock,
                          ![c].cutoff = clock - policy.window_seconds]
    /\ pc' = [pc EXCEPT ![c] = "L37"]
    /\ running' = Release(c, "L37")
    /\ UNCHANGED <<clock, requests, policy, log>>
    /\ UNCHANGED dbVars
    /\ UNCHANGED appVars

\* requests = self._requests[key]; requests[:] = [... if req_time > cutoff]
IsAllowedPrune(c) ==
    /\ pc[c] = "L37"
    /\ Holds(c)
    /\ requests' = [requests EXCEPT ![loc[c].key] = Prune(@, loc[c].cutoff)]
    /\ pc' = [pc EXCEPT ![c] = "L41"]
    /\ running' = Release(c, "L41")
    /\ UNCHANGED <<clock, policy, loc, log>>
    /\ UNCHANGED dbVars
    /\ UNCHANGED appVars

\* A denied call that records the attempt all the same.
IsAllowedCheckRecordsDenied(c) ==
    /\ pc[c] = "L41"
    /\ Holds(c)
    /\ IF AtLimit(requests[loc[c].key], policy.max_requests)
       THEN /\ loc' = [loc EXCEPT ![c].allowed = FALSE, ![c].remaining = 0]
            /\ requests' = [requests EXCEPT ![loc[c].key] = Append(@, loc[c].now)]
            /\ pc' = [pc EXCEPT ![c] = "ret"]
            /\ running' = Release(c, "ret")
       ELSE /\ pc' = [pc EXCEPT ![c] = "L45"]
            /\ running' = Release(c, "L45")
            /\ UNCHANGED <<loc, requests>>
    /\ UNCHANGED <<clock, policy, log>>
    /\ UNCHANGED dbVars
    /\ UNCHANGED appVars

\* if len(requests) >= max_requests: return False, 0
IsAllowedCheck(c) ==
    /\ pc[c] = "L41"
    /\ Holds(c)
    /\ IF AtLimit(requests[loc[c].key], policy.max_requests)
       THEN /\ loc' = [loc EXCEPT ![c].allowed = FALSE, ![c].remaining = 0]
            /\ pc' = [pc EXCEPT ![c] = "ret"]
            /\ running' = Release(c, "ret")
       ELSE /\ pc' = [pc EXCEPT ![c] = "L45"]
            /\ running' = Release(c, "L45")
            /\ UNCHANGED loc
    /\ UNCHANGED <<clock, requests, policy, log>>
    /\ UNCHANGED dbVars
    /\ UNCHANGED appVars

\* requests.append(now); remaining = max(0, ...); return True, remaining
IsAllowedAppend(c) ==
    /\ pc[c] = "L45"
    /\ Holds(c)
    /\ requests' = [requests EXCEPT ![loc[c].key] = Append(@, loc[c].now)]
    /\ loc' = [loc EXCEPT ![c].allowed = TRUE,
                          ![c].remaining =
                              Remaining(requests'[loc[c].key],
                                        policy.max_requests)]
    /\ pc' = [pc EXCEPT ![c] = "ret"]
    /\ running' = Release(c, "ret")
    /\ UNCHANGED <<clock, policy, log>>
    /\ UNCHANGED dbVars
    /\ UNCHANGED appVars

\* The caller receives (allowed, remaining); the call is logged with the
\* history it left behind and whether another request for the same key was
\* waiting while it ran.
IsAllowedReturn(c) ==
    /\ pc[c] = "ret"
    /\ Holds(c)
    /\ log' = [log EXCEPT ![loc[c].key] =
                 Append(@, [t |-> loc[c].now,
                            allowed |-> loc[c].allowed,
                            remaining |-> loc[c].remaining,
                            hist |-> requests[loc[c].key],
                            conc |-> \E d \in Coros \ {c} :
                                        pc[d] # "idle" /\ loc[d].key = loc[c].key])]
    /\ pc' = [pc EXCEPT ![c] = "idle"]
    /\ loc' = [loc EXCEPT ![c] = NoLocals]
    /\ running' = Release(c, "idle")
    /\ UNCHANGED <<clock, requests, policy>>
    /\ UNCHANGED dbVars
    /\ UNCHANGED appVars

\* A get_remaining that counts itself.
GetRemainingRecords(reqs, now, window_seconds) ==
    Append(Prune(reqs, now - window_seconds), now)

\* get_remaining, lines 61-65: the history it leaves
GetRemainingHistory(reqs, now, window_seconds) == Prune(reqs, now - window_seconds)

\* RateLimiter.get_remaining(key, ...): a synchronous call, made while no
\* is_allowed call is between its entry and its return
GetRemaining(k) ==
    /\ running = NoCoro
    /\ requests' = [requests EXCEPT ![k] =
                       GetRemainingHistory(@, clock, policy.window_seconds)]
    /\ UNCHANGED <<clock, policy, pc, loc, running, log>>
    /\ UNCHANGED dbVars
    /\ UNCHANGED appVars

\* Wall-clock time passes. A running handler reads the clock once, on entry
\* (line 33), so time that passes while it runs is time that passes after it.
Tick ==
    /\ clock < MaxTime
    /\ running = NoCoro
    /\ clock' = clock + 1
    /\ UNCHANGED <<requests, policy, pc, loc, running, log>>
    /\ UNCHANGED dbVars
    /\ UNCHANGED appVars

Policies == [max_requests : 1..MaxN, window_seconds : 1..MaxW]

InitRateLimit ==
    /\ clock = 0
    /\ requests = [k \in Keys |-> <<>>]
    /\ policy \in Policies
    /\ pc = [c \in Coros |-> "idle"]
    /\ loc = [c \in Coros |-> NoLocals]
    /\ running = NoCoro
    /\ log = [k \in Keys |-> <<>>]
    /\ users = <<>>
    /\ api_keys = <<>>
    /\ issued = {}
    /\ streak = <<>>
    /\ ret = <<>>
    /\ EmptyTables

NextRateLimit ==
    \/ \E c \in Coros, k \in Keys : Arrive(c, k)
    \/ \E c \in Coros : IsAllowedEnter(c)
    \/ \E c \in Coros : IsAllowedPrune(c)
    \/ \E c \in Coros : IsAllowedCheck(c)
    \/ \E c \in Coros : IsAllowedAppend(c)
    \/ \E c \in Coros : IsAllowedReturn(c)
    \/ \E k \in Keys : GetRemaining(k)
    \/ Tick

SpecRateLimit == InitRateLimit /\ [][NextRateLimit]_vars

----------------------------------------------------------------------------
(* Claims about the rate limiter, over the log of returned calls *)

LimitN == policy.max_requests
WindowW == policy.window_seconds

\* The timestamps of `hist` that are still inside the window at time t.
InWindow(hist, t) ==
    LET Fresh(ts) == ts > t - WindowW IN SelectSeq(hist, Fresh)

\* The stored history that call i on key k found.
HistBefore(k, i) == IF i = 1 THEN <<>> ELSE log[k][i - 1].hist

\* C1: starting from an empty history, the n-th of the calls made within one
\* window returns (true, N - n) for n <= N, and the (N+1)-th returns (false, 0).
C1_CountsDown ==
    \A k \in Keys : \A i \in 1..Len(log[k]) :
        InWindow(HistBefore(k, i), log[k][i].t) = <<>> =>
            \A j \in i..Len(log[k]) :
                log[k][j].t - log[k][i].t < WindowW =>
                    LET n == j - i + 1 IN
                    /\ n <= LimitN =>
                          log[k][j].allowed /\ log[k][j].remaining = LimitN - n
                    /\ n = LimitN + 1 =>
                          ~log[k][j].allowed /\ log[k][j].remaining = 0

C1_Witness ==
    \E k \in Keys :
        /\ LimitN = 2
        /\ Len(log[k]) >= 3
        /\ log[k][3].t - log[k][1].t < WindowW
        /\ log[k][1].remaining = 1
        /\ log[k][2].remaining = 0
        /\ ~log[k][3].allowed

\* C2: under every interleaving of requests for one key, the admitted calls
\* whose times lie in one window never number more than N.
C2_NeverOverAdmits ==
    \A k \in Keys : \A i \in 1..Len(log[k]) :
        log[k][i].allowed =>
            Cardinality({j \in 1..Len(log[k]) :
                            /\ log[k][j].allowed
                            /\ log[k][j].t <= log[k][i].t
                            /\ log[k][i].t - log[k][j].t < WindowW}) <= LimitN

\* Two requests for the same key were waiting together with one slot left:
\* one took it and the other was denied at the same instant.
C2_Witness ==
    \E k \in Keys : \E i \in 1..Len(log[k]) :
        /\ i < Len(log[k])
        /\ log[k][i].conc
        /\ log[k][i].allowed
        /\ log[k][i].remaining = 0
        /\ ~log[k][i + 1].allowed
        /\ log[k][i + 1].t = log[k][i].t

\* C3: a call that finds a full history whose oldest timestamp ts satisfies
\* ts <= now - window_seconds is allowed.
C3_AllowedAgainAfterWindow ==
    \A k \in Keys : \A i \in 2..Len(log[k]) :
        LET prev == HistBefore(k, i) IN
        (Len(prev) >= LimitN /\ prev[1] <= log[k][i].t - WindowW) =>
            log[k][i].allowed

\* A denied call, then a call exactly window_seconds after the oldest timestamp.
C3_Witness ==
    \E k \in Keys : \E i \in 2..Len(log[k]) :
        /\ ~log[k][i - 1].allowed
        /\ log[k][i].allowed
        /\ HistBefore(k, i)[1] = log[k][i].t - WindowW

\* C4: a denied call returns (false, 0) and leaves the in-window timestamps
\* as they were; after a run of denied calls the key is allowed again as soon
\* as the oldest timestamp the first of them saw has left the window.
C4_DeniedRecordsNothing ==
    \A k \in Keys : \A i \in 1..Len(log[k]) :
        ~log[k][i].allowed =>
            /\ log[k][i].remaining = 0
            /\ log[k][i].hist = InWindow(HistBefore(k, i), log[k][i].t)
            /\ \A j \in (i + 1)..Len(log[k]) :
                   ( /\ \A m \in i..(j - 1) : ~log[k][m].allowed
                     /\ log[k][i].hist # <<>>
                     /\ log[k][j].t - log[k][i].hist[1] >= WindowW )
                   => log[k][j].allowed

C4_Witness ==
    \E k \in Keys : \E i \in 1..Len(log[k]) :
        /\ i + 2 <= Len(log[k])
        /\ ~log[k][i].allowed
        /\ ~log[k][i + 1].allowed
        /\ log[k][i + 1].t > log[k][i].hist[1]
        /\ log[k][i + 2].allowed
        /\ log[k][i + 2].t = log[k][i].hist[1] + WindowW

\* The admitted calls on key k whose time lies in (t - W, t]
AdmittedIn(k, t) ==
    {j \in 1..Len(log[k]) :
        /\ log[k][j].allowed
        /\ log[k][j].t > t - WindowW
        /\ log[k][j].t <= t}

\* C29: for a key called with one N >= 1 and one W at non-decreasing times,
\* after any sequence of is_allowed and get_remaining calls the stored
\* history holds at most N timestamps, and the admitted calls whose time
\* lies in a half-open interval (t - W, t] never number more than N.
C29_HistoryAndWindowBounded ==
    \A k \in Keys :
        /\ Len(requests[k]) <= LimitN
        /\ \A t \in 0..MaxTime : Cardinality(AdmittedIn(k, t)) <= LimitN

\* N calls were admitted and one denied at one instant; after the window a
\* get_remaining call has emptied the history.
C29_Witness ==
    \E k \in Keys :
        /\ Len(log[k]) = LimitN + 1
        /\ ~log[k][LimitN + 1].allowed
        /\ Cardinality(AdmittedIn(k, log[k][1].t)) = LimitN
        /\ Len(log[k][LimitN + 1].hist) = LimitN
        /\ InFlight = {}
        /\ requests[k] = <<>>

----------------------------------------------------------------------------
(* Signed, timestamped tokens: itsdangerous.TimestampSigner as SessionManager *)
(* uses it                                                                  *)

\* A token is the sequence of its '.'-separated segments. A segment is
\*   <<"uuid", u>>            the canonical text of UUID u
\*   <<"text", s>>            any other '.'-free text
\*   <<"b64", bytes, tail>>   URL-safe base64 of `bytes`; tail 0 is what the
\*                            encoder writes, another tail is the same text
\*                            with trailing '=' or other unused trailing bits
None == "None"
UserIds == {"u1", "u2"}
Secrets == {"secret-A", "secret-B"}

session_expire_hours == 24
SessionMaxAge == session_expire_hours * 3600

\* str(user_id)
Str(user_id) == <<"uuid", user_id>>

\* UUID(text): the id the text denotes, or "ValueError"
UUIDParse(text) ==
    IF Len(text) = 1 /\ text[1][1] = "uuid" THEN text[1][2] ELSE "ValueError"

\* base64_encode / base64_decode: decoding ignores the tail
Undecodable == <<"undecodable">>
B64Encode(bytes) == <<"b64", bytes, 0>>
B64Decode(seg) == IF seg[1] = "b64" THEN seg[2] ELSE Undecodable

IntBytes(n) == <<"int", n>>
\* bytes_to_int, with -1 for bytes that are no timestamp
BytesToInt(bytes) == IF bytes # Undecodable /\ bytes[1] = "int" THEN bytes[2] ELSE 0 - 1

\* Signer.derive_key and the HMAC of a value under it
DeriveKey(secret_key) == <<"django-concat", "itsdangerous.Signer", secret_key>>
HMAC(key, value) == <<"hmac", key, value>>

\* Signer.get_signature / verify_signature
GetSignature(secret_key, value) == B64Encode(HMAC(DeriveKey(secret_key), value))
VerifySignatureIgnoresKey(secret_key, value, sig) ==
    LET mac == B64Decode(sig) IN
    mac # Undecodable /\ mac[1] = "hmac" /\ mac[3] = value
VerifySignature(secret_key, value, sig) ==
    B64Decode(sig) = HMAC(DeriveKey(secret_key), value)

\* TimestampSigner.sign(value) at time t: value.timestamp.signature
Sign(secret_key, value, t) ==
    LET stamped == <<value, B64Encode(IntBytes(t))>>
    IN  Append(stamped, GetSignature(secret_key, stamped))

\* The exceptions of unsign, each with its base classes
ExcBases ==
    [BadSignature |-> {"BadSignature", "BadData", "Exception"},
     BadTimeSignature |-> {"BadTimeSignature", "BadSignature", "BadData", "Exception"},
     SignatureExpired |-> {"SignatureExpired", "BadTimeSignature", "BadSignature",
                           "BadData", "Exception"},
     ValueError |-> {"ValueError", "Exception"}]

Ok(value) == [ok |-> TRUE, value |-> value]
Raise(exc) == [ok |-> FALSE, exc |-> exc]

\* An age test that already refuses a token whose age equals max_age.
ExpiredAtMaxAge(age, max_age) == age >= max_age \/ age < 0

\* unsign called without max_age: no token ever expires.
ExpiredNever(age, max_age) == FALSE
Expired(age, max_age) == age > max_age \/ age < 0

\* TimestampSigner.unsign(token, max_age) at time t
Unsign(secret_key, token, max_age, t) ==
    LET n == Len(token) IN
    IF n < 2 THEN Raise("BadSignature")
    ELSE
      LET value == SubSeq(token, 1, n - 1)
          sig == token[n]
      IN
      IF ~VerifySignature(secret_key, value, sig)
      THEN IF Len(value) < 2 THEN Raise("BadSignature") ELSE Raise("BadTimeSignature")
      ELSE IF Len(value) < 2 THEN Raise("BadTimeSignature")
      ELSE
        LET ts_int == BytesToInt(B64Decode(value[n - 1])) IN
        IF ts_int < 0 THEN Raise("BadTimeSignature")
        ELSE IF Expired(t - ts_int, max_age) THEN Raise("SignatureExpired")
        ELSE Ok(SubSeq(value, 1, n - 2))

\* SessionManager.create_session(user_id) at time t
CreateSessionToken(secret_key, user_id, t) == Sign(secret_key, Str(user_id), t)

\* except (BadSignature, SignatureExpired, ValueError)
VerifySessionExcept == {"BadSignature", "SignatureExpired", "ValueError"}

Caught(exc, handlers) == ExcBases[exc] \cap handlers # {}

\* The session lifetime of a mutant that forgets the hours-to-seconds factor.
VerifyMaxAgeInHours == session_expire_hours
VerifyMaxAge == session_expire_hours * 3600

\* SessionManager.verify_session(session_token) at time t: a user id, None,
\* or Raises when an exception escapes the except clause
Raises == "raises"
VerifySessionResult(secret_key, session_token, t) ==
    LET r == Unsign(secret_key, session_token, VerifyMaxAge, t) IN
    IF ~r.ok
    THEN IF Caught(r.exc, VerifySessionExcept) THEN None ELSE Raises
    ELSE LET u == UUIDParse(r.value) IN
         IF u = "ValueError"
         THEN IF Caught("ValueError", VerifySessionExcept) THEN None ELSE Raises
         ELSE u

----------------------------------------------------------------------------
(* Credential hasher: bcrypt as password.py and api_key.py use it *)

\* hash_password(password) / hash_api_key(api_key) with the salt gensalt drew
HashPassword(password, salt) == <<"bcrypt", salt, password>>

\* verify_password / verify_api_key: checkpw, and False on any exception
VerifyPassword(plain, hashed) ==
    IF Len(hashed) = 3 /\ hashed[1] = "bcrypt" THEN hashed[3] = plain ELSE FALSE

----------------------------------------------------------------------------
(* The login flow: handle_login over the rate limiter, the users table and *)
(* the session manager                                                      *)

LoginMaxRequests == 5
LoginWindowSeconds == 900

MaxLoginCalls == 7

\* RateLimiter.is_allowed as one call: (allowed, remaining) and the history
\* it leaves
IsAllowed(reqs, now, max_requests, window_seconds) ==
    LET pruned == Prune(reqs, now - window_seconds) IN
    IF AtLimit(pruned, max_requests)
    THEN [allowed |-> FALSE, remaining |-> 0, requests |-> pruned]
    ELSE LET added == Append(pruned, now) IN
         [allowed |-> TRUE, remaining |-> Remaining(added, max_requests),
          requests |-> added]

\* The two callers of handle_login: rate_limit_key and require_admin
Flows == {"login", "admin_login"}
RequireAdmin(flow) == flow = "admin_login"
Ips == {"10.0.0.1"}
LoginKeys == Flows \X Ips

Usernames == {"alice", "nobody"}
Passwords == {"correct-password", "wrong-password"}
ServerSecret == "secret-A"

\* The instants at which the login model looks at the clock: the start, the
\* last second of the window that opens then, and the first second after it
LoginInstants == {0, LoginWindowSeconds - 1, LoginWindowSeconds}

LoginCalls == streak[<<"login", "10.0.0.1">>].total + streak[<<"admin_login", "10.0.0.1">>].total

\* db.query(User).filter(User.username == username).first()
UserByUsername(username) ==
    IF \E u \in DOMAIN users : users[u].username = username
    THEN CHOOSE u \in DOMAIN users : users[u].username = username
    ELSE None

\* A login flow that looks the user up before it asks the rate limiter.
LoginStatusCredentialsFirst(allowed, uid, password, require_admin) ==
    IF uid = None THEN IF allowed THEN 401 ELSE 429
    ELSE IF users[uid].password_hash = <<>>
            \/ ~VerifyPassword(password, users[uid].password_hash)
         THEN IF allowed THEN 401 ELSE 429
    ELSE IF require_admin /\ users[uid].role # "admin" THEN 403
    ELSE IF ~users[uid].is_active THEN 403
    ELSE 303

\* The status handle_login answers with, in the order of its checks
LoginStatus(allowed, uid, password, require_admin) ==
    IF ~allowed THEN 429
    ELSE IF uid = None THEN 401
    ELSE IF users[uid].password_hash = <<>>
            \/ ~VerifyPassword(password, users[uid].password_hash) THEN 401
    ELSE IF require_admin /\ users[uid].role # "admin" THEN 403
    ELSE IF ~users[uid].is_active THEN 403
    ELSE 303

\* A login flow that tells an unknown username from a wrong password.
LoginErrorNamesField(allowed, uid, password, require_admin) ==
    IF ~allowed THEN "Too many login attempts. Please try again in 15 minutes."
    ELSE IF uid = None THEN "Unknown username"
    ELSE IF users[uid].password_hash = <<>>
            \/ ~VerifyPassword(password, users[uid].password_hash)
         THEN "Invalid username or password"
    ELSE IF require_admin /\ users[uid].role # "admin" THEN "Admin access required"
    ELSE IF ~users[uid].is_active THEN "Account is inactive"
    ELSE ""

\* A login flow that tests is_active before the role.
LoginErrorActiveFirst(allowed, uid, password, require_admin) ==
    IF ~allowed THEN "Too many login attempts. Please try again in 15 minutes."
    ELSE IF uid = None THEN "Invalid username or password"
    ELSE IF users[uid].password_hash = <<>>
            \/ ~VerifyPassword(password, users[uid].password_hash)
         THEN "Invalid username or password"
    ELSE IF ~users[uid].is_active THEN "Account is inactive"
    ELSE IF require_admin /\ users[uid].role # "admin" THEN "Admin access required"
    ELSE ""

LoginError(allowed, uid, password, require_admin) ==
    IF ~allowed THEN "Too many login attempts. Please try again in 15 minutes."
    ELSE IF uid = None THEN "Invalid username or password"
    ELSE IF users[uid].password_hash = <<>>
            \/ ~VerifyPassword(password, users[uid].password_hash)
         THEN "Invalid username or password"
    ELSE IF require_admin /\ users[uid].role # "admin" THEN "Admin access required"
    ELSE IF ~users[uid].is_active THEN "Account is inactive"
    ELSE ""

\* Whether the user exists, has a password hash, and the password matches it
PasswordMatches(uid, password) ==
    /\ uid # None
    /\ users[uid].password_hash # <<>>
    /\ VerifyPassword(password, users[uid].password_hash)

\* Whether the credentials alone would log the user in
GoodCredentials(uid, password, require_admin) ==
    /\ uid # None
    /\ users[uid].password_hash # <<>>
    /\ VerifyPassword(password, users[uid].password_hash)
    /\ ~(require_admin /\ users[uid].role # "admin")
    /\ users[uid].is_active

HandleLogin(flow, ip, username, password) ==
    LET key == <<flow, ip>>
        lim == IsAllowed(requests[key], clock, LoginMaxRequests, LoginWindowSeconds)
        uid == UserByUsername(username)
        status == LoginStatus(lim.allowed, uid, password, RequireAdmin(flow))
        fresh == Prune(requests[key], clock - LoginWindowSeconds) = <<>>
    IN
    /\ LoginCalls < MaxLoginCalls
    /\ requests' = [requests EXCEPT ![key] = lim.requests]
    /\ streak' = [streak EXCEPT ![key] =
                    [first |-> IF fresh THEN clock ELSE @.first,
                     n |-> IF fresh THEN 1 ELSE @.n + 1,
                     total |-> @.total + 1]]
    /\ ret' = [op |-> "handle_login", key |-> key, t |-> clock,
               allowed |-> lim.allowed, uid |-> uid,
               pw_ok |-> PasswordMatches(uid, password),
               good |-> GoodCredentials(uid, password, RequireAdmin(flow)),
               status |-> status,
               error |-> LoginError(lim.allowed, uid, password, RequireAdmin(flow)),
               cookie |-> IF status = 303
                          THEN CreateSessionToken(ServerSecret, uid, clock)
                          ELSE <<>>]
    /\ UNCHANGED <<clock, policy, pc, loc, running, log, users, api_keys, issued>>
    /\ UNCHANGED appVars

TickLogin ==
    /\ \E t \in LoginInstants : t > clock /\ clock' = t
    /\ UNCHANGED <<requests, policy, pc, loc, running, log>>
    /\ UNCHANGED dbVars
    /\ UNCHANGED appVars

Roles == {"admin", "user", "readonly"}

\* One registered user, with any role, active or not, with or without a
\* password hash
LoginUserRows ==
    [username : {"alice"}, role : Roles, is_active : BOOLEAN,
     password_hash : {<<>>, HashPassword("correct-password", "salt1")}]

NoRet == [op |-> "none"]

InitLogin ==
    /\ clock = 0
    /\ requests = [k \in LoginKeys |-> <<>>]
    /\ policy = [max_requests |-> LoginMaxRequests, window_seconds |-> LoginWindowSeconds]
    /\ pc = [c \in Coros |-> "idle"]
    /\ loc = [c \in Coros |-> NoLocals]
    /\ running = NoCoro
    /\ log = [k \in Keys |-> <<>>]
    /\ users \in [{"u1"} -> LoginUserRows]
    /\ api_keys = <<>>
    /\ issued = {}
    /\ streak = [k \in LoginKeys |-> [first |-> 0, n |-> 0, total |-> 0]]
    /\ ret = NoRet
    /\ EmptyTables

NextLogin ==
    \/ \E flow \in Flows, ip \in Ips, username \in Usernames, password \in Passwords :
          HandleLogin(flow, ip, username, password)
    \/ TickLogin

SpecLogin == InitLogin /\ [][NextLogin]_vars

C13_InvalidCredentialsAlike ==
    (ret.op = "handle_login" /\ ~ret.pw_ok) =>
        IF ret.allowed
        THEN /\ ret.status = 401
             /\ ret.error = "Invalid username or password"
             /\ ret.cookie = <<>>
        ELSE ret.status = 429 /\ ret.cookie = <<>>

\* A login for a user that exists but has no password_hash, not the first
\* call of its window, refused like an unknown username.
C13_Witness ==
    /\ ret.op = "handle_login"
    /\ ret.allowed
    /\ ret.uid # None
    /\ users[ret.uid].password_hash = <<>>
    /\ ret.status = 401
    /\ ret.error = "Invalid username or password"
    /\ streak[ret.key].n >= 2

\* C14: handle_login checks the rate limit, the user, the password, the
\* role and is_active in that order and stops at the first failure: 429
\* when the limiter refuses; else 401 when the user is unknown or the
\* password does not match, whatever role and is_active are; else 403 'Admin
\* access required' for a non-admin on the admin flow, active or not; else
\* 403 'Account is inactive'; a cookie is set only on 303, when every check
\* has passed, and its token verifies to the user's id.
C14_ChecksInOrder ==
    ret.op = "handle_login" =>
        LET admin_flow == RequireAdmin(ret.key[1]) IN
        /\ ~ret.allowed => ret.status = 429
        /\ (ret.allowed /\ ~ret.pw_ok) => ret.status = 401
        /\ (ret.allowed /\ ret.pw_ok /\ admin_flow /\ users[ret.uid].role # "admin")
              => ret.status = 403 /\ ret.error = "Admin access required"
        /\ (ret.allowed /\ ret.pw_ok /\ ~(admin_flow /\ users[ret.uid].role # "admin")
               /\ ~users[ret.uid].is_active)
              => ret.status = 403 /\ ret.error = "Account is inactive"
        /\ ret.cookie # <<>> <=> ret.status = 303
        /\ ret.status = 303 =>
              /\ ret.allowed /\ ret.pw_ok /\ users[ret.uid].is_active
              /\ admin_flow => users[ret.uid].role = "admin"
              /\ VerifySessionResult(ServerSecret, ret.cookie, ret.t) = ret.uid

\* The right password of an inactive non-admin on the admin flow: the role
\* is what the answer names.
C14_Witness ==
    /\ ret.op = "handle_login"
    /\ ret.allowed
    /\ ret.pw_ok
    /\ RequireAdmin(ret.key[1])
    /\ users[ret.uid].role # "admin"
    /\ ~users[ret.uid].is_active
    /\ ret.status = 403
    /\ ret.error = "Admin access required"

----------------------------------------------------------------------------
(* The session service on its own: SessionManager instances over two secrets *)

MaxIssued == 2

\* The instants at which the session model looks at the clock: the start, the
\* last second a token issued then is valid, and the first second it is not
SessionInstants == {0, SessionMaxAge, SessionMaxAge + 1}

NoToken == <<>>

\* What a client can make of a token it holds without knowing the secret
Tamperings ==
    {"none", "signature_garbled", "signature_reencoded", "payload_swapped",
     "timestamp_refreshed", "signature_dropped"}

OtherUser(uid) == CHOOSE v \in UserIds : v # uid

Tamper(how, token, t) ==
    LET n == Len(token) IN
    CASE how = "none" -> token
      [] how = "signature_garbled" -> [token EXCEPT ![n] = <<"text", "XXXXX">>]
      [] how = "signature_reencoded" -> [token EXCEPT ![n] = <<"b64", @[2], 1>>]
      [] how = "payload_swapped" -> [token EXCEPT ![1] = Str(OtherUser(@[2]))]
      [] how = "timestamp_refreshed" -> [token EXCEPT ![2] = B64Encode(IntBytes(t))]
      [] how = "signature_dropped" -> SubSeq(token, 1, n - 1)

\* Strings that no signer produced, a signed token that carries no user id,
\* and a signed value that carries no timestamp
MalformedTokens ==
    {<<<<"text", "">>>>,
     <<<<"text", "not-a-valid-token">>>>,
     <<<<"text", "a">>, <<"text", "b">>, <<"text", "c">>, <<"text", "d">>,
       <<"text", "e">>, <<"text", "f">>>>,
     Sign(ServerSecret, <<"text", "csrf-random-value">>, 0),
     <<Str("u1"), GetSignature(ServerSecret, <<Str("u1")>>)>>}

PresentableTokens ==
    {Tamper(how, s.token, clock) : how \in Tamperings, s \in issued} \cup MalformedTokens

\* SessionManager(secret_key).create_session(user_id)
CreateSession(secret_key, user_id) ==
    /\ Cardinality(issued) < MaxIssued
    /\ LET token == CreateSessionToken(secret_key, user_id, clock) IN
       /\ issued' = issued \cup {[secret |-> secret_key, uid |-> user_id,
                                  t |-> clock, token |-> token]}
       /\ ret' = [op |-> "create_session", secret |-> secret_key, t |-> clock,
                  token |-> token, result |-> None]
    /\ UNCHANGED <<clock, requests, policy, pc, loc, running, log, users, api_keys,
                   streak>>
    /\ UNCHANGED appVars

\* SessionManager(secret_key).verify_session(session_token)
VerifySession(secret_key, session_token) ==
    /\ ret' = [op |-> "verify_session", secret |-> secret_key, t |-> clock,
               token |-> session_token,
               result |-> VerifySessionResult(secret_key, session_token, clock)]
    /\ UNCHANGED <<clock, requests, policy, pc, loc, running, log, users, api_keys,
                   issued, streak>>
    /\ UNCHANGED appVars

TickSession ==
    /\ \E t \in SessionInstants : t > clock /\ clock' = t
    /\ UNCHANGED <<requests, policy, pc, loc, running, log>>
    /\ UNCHANGED dbVars
    /\ UNCHANGED appVars

InitSession ==
    /\ clock = 0
    /\ requests = <<>>
    /\ policy = <<>>
    /\ pc = [c \in Coros |-> "idle"]
    /\ loc = [c \in Coros |-> NoLocals]
    /\ running = NoCoro
    /\ log = [k \in Keys |-> <<>>]
    /\ users = <<>>
    /\ api_keys = <<>>
    /\ issued = {}
    /\ streak = <<>>
    /\ ret = NoRet
    /\ EmptyTables

NextSession ==
    \/ \E secret_key \in Secrets, user_id \in UserIds : CreateSession(secret_key, user_id)
    \/ \E secret_key \in Secrets, token \in PresentableTokens :
          VerifySession(secret_key, token)
    \/ TickSession

SpecSession == InitSession /\ [][NextSession]_vars

\* The tokens create_session has returned under the secret of the last call
IssuedUnder(secret_key) == {s \in issued : s.secret = secret_key}

\* C6: a token create_session returned verifies, under the same secret, to
\* exactly the user id it was created for while its age is at most
\* expire_hours * 3600 seconds; so do all the tokens issued for one user.
C6_RoundTrip ==
    ret.op = "verify_session" =>
        \A s \in IssuedUnder(ret.secret) :
            (ret.token = s.token /\ ret.t - s.t <= session_expire_hours * 3600)
                => ret.result = s.uid

\* Two tokens of one user, issued at different times, and the older one
\* verified at the last second of its life.
C6_Witness ==
    /\ ret.op = "verify_session"
    /\ \E s1, s2 \in IssuedUnder(ret.secret) :
          /\ s1.uid = s2.uid
          /\ s1.t < s2.t
          /\ ret.token = s1.token
          /\ ret.t - s1.t = session_expire_hours * 3600
          /\ ret.result = s1.uid

\* Two tokens that differ at most in how the signature segment is encoded
SameSignedBytes(tok1, tok2) ==
    /\ Len(tok1) = Len(tok2)
    /\ Len(tok1) >= 2
    /\ \A i \in 1..(Len(tok1) - 1) : tok1[i] = tok2[i]
    /\ tok1[Len(tok1)][1] = "b64"
    /\ tok2[Len(tok2)][1] = "b64"
    /\ tok1[Len(tok1)][2] = tok2[Len(tok2)][2]

\* C7 as stated: verify_session returns none, and never raises, for every
\* token that create_session did not produce under the same secret.
C7_OnlyIssuedTokensVerify ==
    (ret.op = "verify_session"
        /\ \A s \in IssuedUnder(ret.secret) : ret.token # s.token)
    => ret.result = None

\* C7 amended: verify_session never raises, and returns none for every token
\* that is neither a token create_session produced under the same secret nor
\* such a token with its signature segment encoded differently (the same
\* signature bytes); a token it accepts verifies to the id of that issued token.
C7_OnlySignedBytesVerify ==
    ret.op = "verify_session" =>
        /\ ret.result # Raises
        /\ ret.result # None =>
              \E s \in IssuedUnder(ret.secret) :
                  SameSignedBytes(ret.token, s.token) /\ ret.result = s.uid

\* A token signed under the other secret is presented and yields none.
C7_Witness ==
    /\ ret.op = "verify_session"
    /\ \E s \in issued : s.secret # ret.secret /\ ret.token = s.token
    /\ ret.result = None

----------------------------------------------------------------------------
(* The authenticator: get_current_user over the api_keys and users tables   *)
(* and the global session_manager                                           *)

\* hash_api_key(api_key): the password hasher
HashApiKey(api_key, salt) == HashPassword(api_key, salt)

\* verify_api_key(plain_key, hashed_key)
VerifyApiKey(plain_key, hashed_key) ==
    IF Len(hashed_key) = 3 /\ hashed_key[1] = "bcrypt"
    THEN hashed_key[3] = plain_key
    ELSE FALSE

\* X-API-Key header values: no header, an empty one, the plaintext of each
\* stored key, and a plaintext with a character appended
ApiKeyHeaders == {None, "", "key-P1", "key-P2", "key-P1x"}

Null == <<>>

\* `if x_api_key:` and `if session_token:`
HeaderGiven(x_api_key) == x_api_key \notin {None, ""}
CookieGiven(session_token) == session_token \notin {NoToken, <<<<"text", "">>>>}

Min(S) == CHOOSE x \in S : \A y \in S : x <= y

AuthResult(status, detail, user, key) ==
    [status |-> status, detail |-> detail, user |-> user, key |-> key]

\* A scan that leaves out the is_active filter of line 35.
ApiKeyPathScansAll(x_api_key) ==
    LET matching == {i \in 1..Len(api_keys) : VerifyApiKey(x_api_key, api_keys[i].key)}
    IN
    IF matching = {} THEN AuthResult(401, "Invalid API key", None, 0)
    ELSE LET i == Min(matching)
             owner == api_keys[i].user_id
         IN  IF ~users[owner].is_active
             THEN AuthResult(401, "User account is inactive", None, 0)
             ELSE AuthResult(200, "", owner, i)

\* A key path that reports the matched key also when its owner is inactive,
\* so that its last_used_at is written before the owner is looked at.
ApiKeyPathTouchesFirst(x_api_key) ==
    LET matching == {i \in 1..Len(api_keys) :
                        /\ api_keys[i].is_active
                        /\ VerifyApiKey(x_api_key, api_keys[i].key)}
    IN
    IF matching = {} THEN AuthResult(401, "Invalid API key", None, 0)
    ELSE LET i == Min(matching)
             owner == api_keys[i].user_id
         IN  IF ~users[owner].is_active
             THEN AuthResult(401, "User account is inactive", None, i)
             ELSE AuthResult(200, "", owner, i)

\* Lines 32-61: the scan of the active keys, the owner's is_active test
ApiKeyPath(x_api_key) ==
    LET matching == {i \in 1..Len(api_keys) :
                        /\ api_keys[i].is_active
                        /\ VerifyApiKey(x_api_key, api_keys[i].key)}
    IN
    IF matching = {} THEN AuthResult(401, "Invalid API key", None, 0)
    ELSE LET i == Min(matching)
             owner == api_keys[i].user_id
         IN  IF ~users[owner].is_active
             THEN AuthResult(401, "User account is inactive", None, 0)
             ELSE AuthResult(200, "", owner, i)

\* A session path that never looks at is_active.
SessionPathIgnoresActive(session_token, t) ==
    LET user_id == IF CookieGiven(session_token)
                   THEN VerifySessionResult(ServerSecret, session_token, t)
                   ELSE None
    IN
    IF user_id \notin {None, Raises} /\ user_id \in DOMAIN users
    THEN AuthResult(200, "", user_id, 0)
    ELSE AuthResult(401, "Authentication required. Provide X-API-Key header or valid session.",
                    None, 0)

\* Lines 63-82: the session cookie, then the final 401
SessionPath(session_token, t) ==
    LET user_id == IF CookieGiven(session_token)
                   THEN VerifySessionResult(ServerSecret, session_token, t)
                   ELSE None
    IN
    IF user_id = Raises THEN AuthResult(500, "Internal Server Error", None, 0)
    ELSE IF user_id # None /\ user_id \in DOMAIN users /\ users[user_id].is_active
         THEN AuthResult(200, "", user_id, 0)
    ELSE IF user_id # None /\ user_id \in DOMAIN users
         THEN AuthResult(401, "User account is inactive", None, 0)
    ELSE AuthResult(401, "Authentication required. Provide X-API-Key header or valid session.",
                    None, 0)

\* An authenticator that tries the session cookie when the key is refused.
AuthOutcomeFallsThrough(x_api_key, session_token, t) ==
    IF HeaderGiven(x_api_key) /\ ApiKeyPath(x_api_key).status = 200
    THEN ApiKeyPath(x_api_key)
    ELSE SessionPath(session_token, t)

AuthOutcome(x_api_key, session_token, t) ==
    IF HeaderGiven(x_api_key)
    THEN ApiKeyPath(x_api_key)
    ELSE SessionPath(session_token, t)

\* An authenticator that never writes last_used_at.
TouchKeyNever(keys, i, t) == keys
\* api_key_obj.last_used_at = datetime.utcnow(); db.commit()
TouchKey(keys, i, t) == [keys EXCEPT ![i].last_used_at = <<t>>]

\* What the trail records for a session token: "issued" until its owner is
\* deactivated, "deactivated" until a request with it is refused for that,
\* "refused" until the owner is reactivated, then "restored"
Phase(token) == IF token \in DOMAIN trail THEN trail[token] ELSE "issued"

GetCurrentUser(x_api_key, session_token) ==
    LET out == AuthOutcome(x_api_key, session_token, clock) IN
    /\ api_keys' = IF out.key # 0 THEN TouchKey(api_keys, out.key, clock) ELSE api_keys
    /\ ret' = [op |-> "get_current_user", t |-> clock, x_api_key |-> x_api_key,
               cookie |-> session_token, status |-> out.status,
               detail |-> out.detail, user |-> out.user, before |-> api_keys,
               after |-> api_keys']
    /\ trail' = IF /\ out.detail = "User account is inactive"
                    /\ ~HeaderGiven(x_api_key)
                    /\ Phase(session_token) = "deactivated"
                 THEN [tok \in DOMAIN trail \cup {session_token} |->
                          IF tok = session_token THEN "refused" ELSE trail[tok]]
                 ELSE trail
    /\ UNCHANGED <<clock, requests, policy, pc, loc, running, log, users, issued,
                   streak>>
    /\ UNCHANGED <<csrf_issued, commands, hosts, index, email_tokens, password_reset_tokens, flashed, shown>>

\* The cookies a browser may send: none, an empty one, one that was never
\* signed, and the session tokens the server has issued
SessionCookies ==
    {NoToken, <<<<"text", "">>>>, <<<<"text", "not-a-valid-token">>>>}
        \cup {s.token : s \in issued}

UserRow(uid, active) ==
    [username |-> IF uid = "u1" THEN "alice" ELSE "bob",
     email |-> IF uid = "u1" THEN "alice@x" ELSE "bob@x",
     role |-> IF uid = "u1" THEN "admin" ELSE "user",
     is_active |-> active,
     password_hash |-> HashPassword("correct-password", "salt1")]

ApiKeyRow(uid, plain, salt, active) ==
    [user_id |-> uid, key |-> HashApiKey(plain, salt), is_active |-> active,
     last_used_at |-> Null]

InitAuth ==
    /\ clock = 0
    /\ requests = <<>>
    /\ policy = <<>>
    /\ pc = [c \in Coros |-> "idle"]
    /\ loc = [c \in Coros |-> NoLocals]
    /\ running = NoCoro
    /\ log = [k \in Keys |-> <<>>]
    /\ \E active \in [UserIds -> BOOLEAN] :
          users = [uid \in UserIds |-> UserRow(uid, active[uid])]
    /\ \E active \in [1..2 -> BOOLEAN] :
          api_keys = <<ApiKeyRow("u1", "key-P1", "salt1", active[1]),
                       ApiKeyRow("u2", "key-P2", "salt2", active[2])>>
    /\ issued = {}
    /\ streak = <<>>
    /\ ret = NoRet
    /\ EmptyTables

NextAuth ==
    \/ \E user_id \in UserIds : CreateSession(ServerSecret, user_id)
    \/ \E token \in SessionCookies : VerifySession(ServerSecret, token)
    \/ \E x_api_key \in ApiKeyHeaders, token \in SessionCookies :
          GetCurrentUser(x_api_key, token)
    \/ TickSession

SpecAuth == InitAuth /\ [][NextAuth]_vars

\* The active keys of table `keys` that the header value verifies against
Verifying(keys, x_api_key) ==
    {i \in 1..Len(keys) : keys[i].is_active /\ VerifyApiKey(x_api_key, keys[i].key)}

\* C8: a session token verifies exactly while its age is at most
\* expire_hours * 3600 seconds; past that verify_session returns none for it
\* (time only moves forward), and a request whose credential is that cookie
\* is refused with 401.
C8_ExpiredSessionRejected ==
    \A s \in issued :
        LET age == ret.t - s.t IN
        /\ (ret.op = "verify_session" /\ ret.secret = s.secret /\ ret.token = s.token)
              => /\ ret.result = s.uid <=> age <= session_expire_hours * 3600
                 /\ age > session_expire_hours * 3600 => ret.result = None
        /\ (ret.op = "get_current_user" /\ ret.x_api_key \in {None, ""}
               /\ ret.cookie = s.token /\ age > session_expire_hours * 3600)
              => ret.status = 401

\* The cookie of an active user, one second too old, is refused.
C8_Witness ==
    /\ ret.op = "get_current_user"
    /\ ret.x_api_key = None
    /\ \E s \in issued :
          /\ ret.cookie = s.token
          /\ users[s.uid].is_active
          /\ ret.t - s.t = session_expire_hours * 3600 + 1
    /\ ret.status = 401

\* C9 as stated: whenever an X-API-Key header is present the API key decides:
\* a value that verifies returns the key's (active) owner whatever the cookie
\* is, and a value that does not verify is refused with 401 and
\* authenticates nobody, whatever the cookie is (no fall-through to the
\* session path).
C9_HeaderPresentDecides ==
    (ret.op = "get_current_user" /\ ret.x_api_key # None) =>
        LET m == Verifying(ret.before, ret.x_api_key) IN
        /\ \A i \in m : users[ret.before[i].user_id].is_active =>
               ret.status = 200 /\ ret.user = ret.before[i].user_id
        /\ m = {} => ret.status = 401 /\ ret.user = None

\* C9 amended: whenever a non-empty X-API-Key header is present the API key
\* decides, whatever the cookie is: a value that verifies returns the key's
\* owner (401 'User account is inactive' if the owner is inactive), and a
\* value that does not verify fails with 401 'Invalid API key'. An empty
\* header value counts as no header.
C9_NonEmptyHeaderDecides ==
    (ret.op = "get_current_user" /\ ret.x_api_key \notin {None, ""}) =>
        LET m == Verifying(ret.before, ret.x_api_key) IN
        /\ \A i \in m :
               IF users[ret.before[i].user_id].is_active
               THEN ret.status = 200 /\ ret.user = ret.before[i].user_id
               ELSE ret.status = 401 /\ ret.detail = "User account is inactive"
        /\ m = {} => ret.status = 401 /\ ret.detail = "Invalid API key"

\* A key that does not verify is sent with the unexpired session cookie of an
\* active user, and the request is refused.
C9_Witness ==
    /\ ret.op = "get_current_user"
    /\ ret.x_api_key = "key-P1x"
    /\ \E s \in issued :
          /\ ret.cookie = s.token
          /\ users[s.uid].is_active
          /\ ret.t - s.t <= session_expire_hours * 3600
    /\ ret.status = 401
    /\ ret.detail = "Invalid API key"

C26_InactiveOwnerLeavesLastUsed ==
    ret.op = "get_current_user" =>
        LET m == Verifying(ret.before, ret.x_api_key)
            changed == {i \in 1..Len(ret.before) :
                           ret.after[i].last_used_at # ret.before[i].last_used_at}
        IN
        /\ /\ HeaderGiven(ret.x_api_key)
           /\ m # {}
           /\ ~users[ret.before[Min(m)].user_id].is_active
           => /\ ret.status = 401
              /\ ret.detail = "User account is inactive"
              /\ ret.after = ret.before
        /\ changed # {} =>
              /\ HeaderGiven(ret.x_api_key)
              /\ ret.status = 200
              /\ changed = {Min(m)}
              /\ ret.before[Min(m)].user_id = ret.user

\* A request made after time has passed with the active key of the inactive u2:
\* refused, and last_used_at is still unset
C26_Witness ==
    /\ ret.op = "get_current_user"
    /\ ret.x_api_key = "key-P2"
    /\ ret.before[2].is_active
    /\ ~users["u2"].is_active
    /\ ret.status = 401
    /\ ret.detail = "User account is inactive"
    /\ ret.before[2].last_used_at = Null
    /\ ret.after[2].last_used_at = Null
    /\ ret.t > 0

----------------------------------------------------------------------------
(* CSRF tokens: CSRFService over the same TimestampSigner and secret, and   *)
(* the verify_csrf_token dependency of the form endpoints                   *)

CsrfMaxAge == 3600
MaxCsrf == 2

\* `if not token`: a missing or an empty value
TokenGiven(token) == token \notin {NoToken, <<<<"text", "">>>>}

\* secrets.token_urlsafe(32): a value no earlier call has returned
CsrfNonce(n) == <<"text", "nonce-" \o ToString(n)>>

\* CSRFService.generate_token() at time t
GenerateTokenValue(secret_key, nonce, t) == Sign(secret_key, nonce, t)

\* except BadSignature
VerifyTokenExcept == {"BadSignature"}

\* A CSRF service that gives its tokens the lifetime of a session.
VerifyTokenMaxAgeOfSessions == SessionMaxAge
\* unsign(token, max_age=3600)
VerifyTokenMaxAge == CsrfMaxAge

\* CSRFService.verify_token(token) at time t: the value returned, or Raises
VerifyTokenResult(secret_key, token, t) ==
    IF ~TokenGiven(token) THEN "False"
    ELSE LET r == Unsign(secret_key, token, VerifyTokenMaxAge, t) IN
         IF r.ok THEN "True"
         ELSE IF Caught(r.exc, VerifyTokenExcept) THEN "False"
         ELSE Raises

\* A dependency that skips every request.
IsApiPathAlways(path) == TRUE
\* request.url.path.startswith("/api/")
IsApiPath(path) == Len(path) >= 1 /\ path[1] = "api"

\* verify_csrf_token(request, csrf_token, x_csrf_token): TRUE when the
\* dependency returns, FALSE when it raises 403
VerifyCsrfToken(path, csrf_token, x_csrf_token, t) ==
    IF IsApiPath(path) THEN TRUE
    ELSE LET token == IF TokenGiven(x_csrf_token) THEN x_csrf_token ELSE csrf_token
         IN  TokenGiven(token) /\ VerifyTokenResult(ServerSecret, token, t) = "True"

----------------------------------------------------------------------------
(* The admin interface: toggle_user_status behind require_admin and         *)
(* verify_csrf_token                                                        *)

\* The CSRF token of a form rendered at one of the instants up to t
FormTokens(t) ==
    {GenerateTokenValue(ServerSecret, CsrfNonce(1), t0) :
        t0 \in {i \in SessionInstants : i <= t}}

\* The user ids a path may carry: the stored ones and one that is not stored
PathUserIds == UserIds \cup {"u9"}

\* get_current_user, then require_admin's role test (services/auth.py)
RequireAdminOutcome(x_api_key, session_token, t) ==
    LET out == AuthOutcome(x_api_key, session_token, t) IN
    IF out.status = 200 /\ users[out.user].role # "admin"
    THEN AuthResult(403, "Admin access required", None, out.key)
    ELSE out

\* The trail after user_id's is_active has become `active`
TrailAfterToggle(user_id, active) ==
    LET toks == {s.token : s \in {x \in issued : x.uid = user_id}} IN
    [tok \in DOMAIN trail \cup toks |->
        IF tok \in toks /\ ~active /\ Phase(tok) = "issued" THEN "deactivated"
        ELSE IF tok \in toks /\ active /\ Phase(tok) = "refused" THEN "restored"
        ELSE Phase(tok)]

\* A self check that never fires.
IsSelfNever(user_id, current_user_id) == FALSE
\* if user.id == current_user.id
IsSelf(user_id, current_user_id) == user_id = current_user_id

\* A toggle that only ever deactivates.
ToggledOff(is_active) == FALSE
\* user.is_active = not user.is_active
Toggled(is_active) == ~is_active

\* POST /admin/users/{user_id}/toggle
ToggleUserStatus(x_api_key, session_token, x_csrf_token, user_id) ==
    LET out == RequireAdminOutcome(x_api_key, session_token, clock)
        path == <<"admin", "users", user_id, "toggle">>
        res == IF out.status # 200 THEN [status |-> out.status, detail |-> out.detail]
               ELSE IF ~VerifyCsrfToken(path, NoToken, x_csrf_token, clock)
               THEN [status |-> 403, detail |-> "Invalid or missing CSRF token"]
               ELSE IF user_id \notin DOMAIN users
               THEN [status |-> 404, detail |-> "User not found"]
               ELSE IF IsSelf(user_id, out.user)
               THEN [status |-> 400, detail |-> "Cannot deactivate your own account"]
               ELSE [status |-> 303, detail |-> ""]
    IN
    /\ api_keys' = IF out.key # 0 THEN TouchKey(api_keys, out.key, clock) ELSE api_keys
    /\ users' = IF res.status = 303
                THEN [users EXCEPT ![user_id].is_active = Toggled(@)]
                ELSE users
    /\ trail' = IF res.status = 303
                THEN TrailAfterToggle(user_id, ~users[user_id].is_active)
                ELSE trail
    /\ ret' = [op |-> "toggle_user_status", t |-> clock, caller |-> out.user,
               csrf |-> VerifyTokenResult(ServerSecret, x_csrf_token, clock) = "True",
               target |-> user_id, status |-> res.status, detail |-> res.detail,
               before |-> users, after |-> users']
    /\ UNCHANGED <<clock, requests, policy, pc, loc, running, log, issued, streak>>
    /\ UNCHANGED <<csrf_issued, commands, hosts, index, email_tokens, password_reset_tokens, flashed, shown>>

\* An admin and a second account of either role, each with one active key
InitAdmin ==
    /\ clock = 0
    /\ requests = <<>>
    /\ policy = <<>>
    /\ pc = [c \in Coros |-> "idle"]
    /\ loc = [c \in Coros |-> NoLocals]
    /\ running = NoCoro
    /\ log = [k \in Keys |-> <<>>]
    /\ \E role \in {"user", "admin"} :
          users = [uid \in UserIds |->
                      IF uid = "u1" THEN UserRow(uid, TRUE)
                      ELSE [UserRow(uid, TRUE) EXCEPT !.role = role]]
    /\ api_keys = <<ApiKeyRow("u1", "key-P1", "salt1", TRUE),
                    ApiKeyRow("u2", "key-P2", "salt2", TRUE)>>
    /\ issued = {}
    /\ streak = <<>>
    /\ ret = NoRet
    /\ EmptyTables

NextAdmin ==
    \/ \E user_id \in UserIds : CreateSession(ServerSecret, user_id)
    \/ \E s \in issued : VerifySession(ServerSecret, s.token)
    \/ \E token \in {NoToken} \cup {s.token : s \in issued} :
          GetCurrentUser(None, token)
    \/ \E s \in issued, x_csrf_token \in {NoToken} \cup FormTokens(clock),
         user_id \in PathUserIds :
          ToggleUserStatus(None, s.token, x_csrf_token, user_id)
    \/ TickSession

SpecAdmin == InitAdmin /\ [][NextAdmin]_vars

\* C11: while a session token is unexpired, verify_session returns its
\* user's id whether or not the user is active, and a request whose
\* credential is that cookie is answered by the user's current is_active:
\* 401 'User account is inactive' while it is false, the user once it is
\* true again. A cookie that does not verify gets the other 401,
\* 'Authentication required...'.
C11_DeactivationHitsIssuedSessions ==
    \A s \in issued :
        /\ (ret.op = "verify_session" /\ ret.token = s.token
               /\ ret.t - s.t <= SessionMaxAge)
              => ret.result = s.uid
        /\ (ret.op = "get_current_user" /\ ~HeaderGiven(ret.x_api_key)
               /\ ret.cookie = s.token)
              => IF ret.t - s.t > SessionMaxAge
                 THEN /\ ret.status = 401
                      /\ ret.detail # "User account is inactive"
                 ELSE IF users[s.uid].is_active
                 THEN ret.status = 200 /\ ret.user = s.uid
                 ELSE ret.status = 401 /\ ret.detail = "User account is inactive"

\* A token whose owner was deactivated after it was issued, that was refused
\* for that, and whose owner was then reactivated, authenticates again.
C11_Witness ==
    /\ ret.op = "get_current_user"
    /\ ret.status = 200
    /\ Phase(ret.cookie) = "restored"
    /\ \E s \in issued : s.token = ret.cookie /\ ret.user = s.uid


\* C24: a toggle_user_status request by an authenticated admin with a valid
\* CSRF token answers 400 and changes no user when it names the admin's own
\* id, answers 404 and changes no user when it names no stored user, and
\* otherwise answers 303 and negates is_active of the named user and of no
\* other; when the request before it was such a toggle of the same user, the
\* user's is_active is again what it was before the two.
C24_ToggleUserStatus ==
    [][(ret' # ret /\ ret'.op = "toggle_user_status" /\ ret'.caller # None
          /\ ret'.csrf) =>
         /\ ret'.before = users /\ ret'.after = users'
         /\ ret'.target = ret'.caller =>
               ret'.status = 400 /\ users' = users
         /\ ret'.target \notin DOMAIN users =>
               ret'.status = 404 /\ users' = users
         /\ ret'.target \in DOMAIN users /\ ret'.target # ret'.caller =>
               /\ ret'.status = 303
               /\ users' = [users EXCEPT ![ret'.target].is_active =
                                            ~users[ret'.target].is_active]
               /\ (/\ ret.op = "toggle_user_status"
                   /\ ret.status = 303
                   /\ ret.target = ret'.target)
                  => users'[ret'.target].is_active =
                        ret.before[ret'.target].is_active
    ]_vars

\* The second of two consecutive toggles of u2 by the admin u1: u2 is active
\* again
C24_Witness ==
    /\ ret.op = "toggle_user_status"
    /\ ret.caller = "u1"
    /\ ret.target = "u2"
    /\ ret.status = 303
    /\ ~ret.before["u2"].is_active
    /\ users["u2"].is_active

ActiveAdmins == {uid \in DOMAIN users :
                    users[uid].role = "admin" /\ users[uid].is_active}

\* C28: from a state with an active admin, whatever toggle_user_status
\* requests authenticated admins make, in whatever order, some user with role
\* admin is active.
C28_AnActiveAdminRemains == ActiveAdmins # {}

\* Of two admins, one has deactivated the other and is the only active admin
C28_Witness ==
    /\ ret.op = "toggle_user_status"
    /\ ret.status = 303
    /\ ret.before[ret.target].role = "admin"
    /\ ret.before[ret.target].is_active
    /\ ActiveAdmins = {ret.caller}

----------------------------------------------------------------------------
(* API key management: create_api_key, revoke_api_key, regenerate_api_key   *)
(* and regenerate_user_api_key over the api_keys table                      *)

MaxKeys == 4

\* secrets.token_urlsafe(32) for the n-th row of the table, and gensalt()
NewKeyValue(n) == "key-P" \o ToString(n)
NewSalt(n) == "salt" \o ToString(n)

\* ApiKey(user_id=..., key=hash_api_key(plaintext), is_active=True)
NewApiKey(user_id, n) == ApiKeyRow(user_id, NewKeyValue(n), NewSalt(n), TRUE)

\* A regeneration that deactivates nothing.
DeactivateKeysOfNobody(keys, user_id) == keys
\* query(ApiKey).filter(ApiKey.user_id == user_id, ApiKey.is_active)
\*     .update({"is_active": False})
DeactivateKeysOf(keys, user_id) ==
    [i \in 1..Len(keys) |->
        IF keys[i].user_id = user_id /\ keys[i].is_active
        THEN [keys[i] EXCEPT !.is_active = FALSE]
        ELSE keys[i]]

\* The table after the authenticating dependency has committed last_used_at
AfterAuth(out) == IF out.key # 0 THEN TouchKey(api_keys, out.key, clock) ELSE api_keys

\* Whether the request carries a CSRF token that verify_token accepts now
CsrfValid(x_csrf_token) == VerifyTokenResult(ServerSecret, x_csrf_token, clock) = "True"

KeyRet(op, x_api_key, csrf, out, status, detail, row, plaintext) ==
    [op |-> op, t |-> clock, x_api_key |-> x_api_key, csrf |-> csrf,
     caller |-> out.user, status |-> status,
     detail |-> detail, row |-> row, plaintext |-> plaintext,
     before |-> api_keys, after |-> api_keys']

keyFrame == <<clock, requests, policy, pc, loc, running, log, users, issued, streak,
              csrf_issued, commands, hosts, index, email_tokens, password_reset_tokens, flashed, trail>>

\* POST /account/api-keys
CreateApiKey(x_api_key, session_token, x_csrf_token) ==
    LET out == AuthOutcome(x_api_key, session_token, clock)
        csrf == VerifyCsrfToken(<<"account", "api-keys">>, NoToken, x_csrf_token, clock)
        n == Len(api_keys) + 1
        ok == out.status = 200 /\ csrf
    IN
    /\ n <= MaxKeys
    /\ api_keys' = IF ok THEN Append(AfterAuth(out), NewApiKey(out.user, n))
                   ELSE AfterAuth(out)
    /\ shown' = IF ok THEN Append(shown, 1) ELSE shown
    /\ ret' = IF out.status # 200
              THEN KeyRet("create_api_key", x_api_key, CsrfValid(x_csrf_token), out, out.status, out.detail, 0, None)
              ELSE IF ~csrf
              THEN KeyRet("create_api_key", x_api_key, CsrfValid(x_csrf_token), out, 403, "Invalid or missing CSRF token",
                          0, None)
              ELSE KeyRet("create_api_key", x_api_key, CsrfValid(x_csrf_token), out, 200, "", n, NewKeyValue(n))
    /\ UNCHANGED keyFrame

\* POST /account/api-keys/{api_key_id}/revoke
RevokeApiKey(x_api_key, session_token, x_csrf_token, api_key_id) ==
    LET out == AuthOutcome(x_api_key, session_token, clock)
        path == <<"account", "api-keys", "id", "revoke">>
        csrf == VerifyCsrfToken(path, NoToken, x_csrf_token, clock)
        found == /\ api_key_id \in 1..Len(api_keys)
                 /\ api_keys[api_key_id].user_id = out.user
        ok == out.status = 200 /\ csrf /\ found
    IN
    /\ api_keys' = IF ok THEN [AfterAuth(out) EXCEPT ![api_key_id].is_active = FALSE]
                   ELSE AfterAuth(out)
    /\ ret' = IF out.status # 200
              THEN KeyRet("revoke_api_key", x_api_key, CsrfValid(x_csrf_token), out, out.status, out.detail, 0, None)
              ELSE IF ~csrf
              THEN KeyRet("revoke_api_key", x_api_key, CsrfValid(x_csrf_token), out, 403, "Invalid or missing CSRF token",
                          0, None)
              ELSE IF ~found
              THEN KeyRet("revoke_api_key", x_api_key, CsrfValid(x_csrf_token), out, 404, "API key not found", 0, None)
              ELSE KeyRet("revoke_api_key", x_api_key, CsrfValid(x_csrf_token), out, 200, "", api_key_id, None)
    /\ UNCHANGED shown
    /\ UNCHANGED keyFrame

\* POST /api/v1/users/me/api-key/regenerate
RegenerateApiKey(x_api_key, session_token) ==
    LET out == AuthOutcome(x_api_key, session_token, clock)
        n == Len(api_keys) + 1
        ok == out.status = 200
    IN
    /\ n <= MaxKeys
    /\ api_keys' = IF ok
                   THEN Append(DeactivateKeysOf(AfterAuth(out), out.user),
                               NewApiKey(out.user, n))
                   ELSE AfterAuth(out)
    /\ shown' = IF ok THEN Append(shown, 1) ELSE shown
    /\ ret' = IF ok
              THEN KeyRet("regenerate_api_key", x_api_key, FALSE, out, 200, "", n, NewKeyValue(n))
              ELSE KeyRet("regenerate_api_key", x_api_key, FALSE, out, out.status, out.detail, 0, None)
    /\ UNCHANGED keyFrame

\* POST /admin/users/{user_id}/regenerate-key
RegenerateUserApiKey(x_api_key, session_token, x_csrf_token, user_id) ==
    LET out == RequireAdminOutcome(x_api_key, session_token, clock)
        path == <<"admin", "users", user_id, "regenerate-key">>
        csrf == VerifyCsrfToken(path, NoToken, x_csrf_token, clock)
        n == Len(api_keys) + 1
        ok == out.status = 200 /\ csrf /\ user_id \in DOMAIN users
    IN
    /\ n <= MaxKeys
    /\ api_keys' = IF ok
                   THEN Append(DeactivateKeysOf(AfterAuth(out), user_id),
                               NewApiKey(user_id, n))
                   ELSE AfterAuth(out)
    /\ shown' = IF ok THEN Append(shown, 1) ELSE shown
    /\ ret' = IF out.status # 200
              THEN KeyRet("regenerate_user_api_key", x_api_key, CsrfValid(x_csrf_token), out, out.status, out.detail, 0, None)
              ELSE IF ~csrf
              THEN KeyRet("regenerate_user_api_key", x_api_key, CsrfValid(x_csrf_token), out, 403,
                          "Invalid or missing CSRF token", 0, None)
              ELSE IF user_id \notin DOMAIN users
              THEN KeyRet("regenerate_user_api_key", x_api_key, CsrfValid(x_csrf_token), out, 404, "User not found", 0, None)
              ELSE KeyRet("regenerate_user_api_key", x_api_key, CsrfValid(x_csrf_token), out, 303, "", n, NewKeyValue(n))
    /\ UNCHANGED keyFrame

\* The credentials a request may carry: none, the session cookie of a logged
\* in user, or the plaintext of a key of the table
KeyCredentials ==
    {<<None, NoToken>>}
        \cup {<<None, s.token>> : s \in issued}
        \cup {<<NewKeyValue(i), NoToken>> : i \in 1..Len(api_keys)}

\* The admin bootstrap_admin created and a user create_user_admin created,
\* each with the key made for it, both logged in. The requests of this
\* specification arrive within one second: the clock stays at 0.
InitKeys ==
    /\ clock = 0
    /\ requests = <<>>
    /\ policy = <<>>
    /\ pc = [c \in Coros |-> "idle"]
    /\ loc = [c \in Coros |-> NoLocals]
    /\ running = NoCoro
    /\ log = [k \in Keys |-> <<>>]
    /\ users = [uid \in UserIds |-> UserRow(uid, TRUE)]
    /\ api_keys = <<NewApiKey("u1", 1), NewApiKey("u2", 2)>>
    /\ issued = {[secret |-> ServerSecret, uid |-> uid, t |-> 0,
                  token |-> CreateSessionToken(ServerSecret, uid, 0)] : uid \in UserIds}
    /\ streak = <<>>
    /\ ret = NoRet
    /\ csrf_issued = {}
    /\ commands = <<>>
    /\ hosts = <<>>
    /\ index = {}
    /\ email_tokens = <<>>
    /\ password_reset_tokens = <<>>
    /\ flashed = {}
    /\ shown = <<0, 1>>
    /\ trail = <<>>

NextKeys ==
    \/ \E cred \in KeyCredentials : GetCurrentUser(cred[1], cred[2])
    \/ \E cred \in KeyCredentials, x_csrf_token \in {NoToken} \cup FormTokens(clock) :
          CreateApiKey(cred[1], cred[2], x_csrf_token)
    \/ \E cred \in KeyCredentials, x_csrf_token \in {NoToken} \cup FormTokens(clock),
         api_key_id \in 1..(Len(api_keys) + 1) :
          RevokeApiKey(cred[1], cred[2], x_csrf_token, api_key_id)
    \/ \E cred \in KeyCredentials : RegenerateApiKey(cred[1], cred[2])
    \/ \E cred \in KeyCredentials, x_csrf_token \in {NoToken} \cup FormTokens(clock),
         user_id \in PathUserIds :
          RegenerateUserApiKey(cred[1], cred[2], x_csrf_token, user_id)

SpecKeys == InitKeys /\ [][NextKeys]_vars

\* C12: a key that is inactive stays inactive with the hash it has, whatever
\* request comes next, and a request that carries its plaintext is answered
\* 401: no step reactivates a key or lets it authenticate.
C12_InactiveKeysNeverAuthenticate ==
    [][\A i \in 1..Len(api_keys) :
          ~api_keys[i].is_active =>
             /\ Len(api_keys') >= i
             /\ ~api_keys'[i].is_active
             /\ api_keys'[i].key = api_keys[i].key
             /\ (ret'.op # "none" /\ VerifyApiKey(ret'.x_api_key, api_keys[i].key))
                   => ret'.status = 401]_vars

\* u2's first key authenticated, was then deactivated by a regenerate that
\* gave u2 a new active key, and is refused when it is presented again.
C12_Witness ==
    /\ ret.op = "get_current_user"
    /\ ret.x_api_key = NewKeyValue(2)
    /\ ret.status = 401
    /\ ~api_keys[2].is_active
    /\ api_keys[2].last_used_at # Null
    /\ \E i \in 3..Len(api_keys) :
          api_keys[i].user_id = "u2" /\ api_keys[i].is_active


RegenerateOps == {"regenerate_api_key", "regenerate_user_api_key"}
ActiveKeysOf(keys, user_id) ==
    {i \in 1..Len(keys) : keys[i].user_id = user_id /\ keys[i].is_active}

\* C27 as stated: after a regeneration for user U the only active key of U
\* is the new one, every key of U that was active is inactive, and the row
\* of every key of every other user is what it was.
C27_OnlyNewKeyActive ==
    ret.op \in RegenerateOps /\ ret.row # 0 =>
        LET U == ret.after[ret.row].user_id IN
        /\ ret.row = Len(ret.before) + 1
        /\ ActiveKeysOf(ret.after, U) = {ret.row}
        /\ \A i \in ActiveKeysOf(ret.before, U) : ~ret.after[i].is_active
        /\ \A i \in 1..Len(ret.before) :
              ret.before[i].user_id # U => ret.after[i] = ret.before[i]

\* C27: after a regeneration for user U the only active key of U is the new
\* one, every key of U that was active is inactive, and every key of every
\* other user keeps its owner, hash and is_active; the one thing that may
\* differ in another user's key is last_used_at, set to now in the key that
\* authenticated the request.
C27_OnlyNewKeyActiveOthersKept ==
    ret.op \in RegenerateOps /\ ret.row # 0 =>
        LET U == ret.after[ret.row].user_id IN
        /\ ret.row = Len(ret.before) + 1
        /\ ActiveKeysOf(ret.after, U) = {ret.row}
        /\ \A i \in ActiveKeysOf(ret.before, U) : ~ret.after[i].is_active
        /\ \A i \in 1..Len(ret.before) :
              ret.before[i].user_id # U =>
                 /\ ret.after[i].user_id = ret.before[i].user_id
                 /\ ret.after[i].key = ret.before[i].key
                 /\ ret.after[i].is_active = ret.before[i].is_active
                 /\ \/ ret.after[i].last_used_at = ret.before[i].last_used_at
                    \/ /\ ret.after[i].last_used_at = <<ret.t>>
                       /\ ret.before[i].is_active
                       /\ VerifyApiKey(ret.x_api_key, ret.before[i].key)

\* The admin u1, authenticated by API key, regenerates the key of u2, who
\* had two active keys: both are inactive, the new one is active, and the
\* admin's own key has a new last_used_at
C27_Witness ==
    /\ ret.op = "regenerate_user_api_key"
    /\ ret.status = 303
    /\ ret.x_api_key = NewKeyValue(1)
    /\ ret.after[ret.row].user_id = "u2"
    /\ Cardinality(ActiveKeysOf(ret.before, "u2")) = 2
    /\ ActiveKeysOf(ret.after, "u2") = {ret.row}
    /\ ret.before[1].last_used_at = Null
    /\ ret.after[1].last_used_at = <<ret.t>>

\* The handlers of the key specification that depend on verify_csrf_token
CsrfOps == {"create_api_key", "revoke_api_key", "regenerate_user_api_key"}
CsrfRefusal == "Invalid or missing CSRF token"

----------------------------------------------------------------------------
(* The CSRF service on its own: CSRFService instances over two secrets      *)

MaxUses == 2

\* The instants at which the CSRF model looks at the clock: the start, the
\* last second a token generated then is valid, and the first second it is not
CsrfInstants == {0, CsrfMaxAge, CsrfMaxAge + 1}

\* What a form may submit that no signer produced
UnsignedTokens ==
    {NoToken,
     <<<<"text", "">>>>,
     <<<<"text", "not-a-valid-token">>>>,
     <<<<"text", "a">>, <<"text", "b">>, <<"text", "c">>>>}

\* CSRFService(secret_key).generate_token()
GenerateToken(secret_key) ==
    /\ Cardinality(csrf_issued) < MaxCsrf
    /\ LET token == GenerateTokenValue(secret_key,
                                       CsrfNonce(Cardinality(csrf_issued) + 1), clock)
       IN
       /\ csrf_issued' = csrf_issued \cup {[secret |-> secret_key, t |-> clock,
                                            token |-> token, uses |-> 0]}
       /\ ret' = [op |-> "generate_token", secret |-> secret_key, t |-> clock,
                  token |-> token]
    /\ UNCHANGED <<clock, requests, policy, pc, loc, running, log, users, api_keys,
                   issued, streak>>
    /\ UNCHANGED <<commands, hosts, index, email_tokens, password_reset_tokens, flashed, shown, trail>>

\* CSRFService(secret_key).verify_token(token), for a token made from one
\* that was generated (base) in the way `how`
VerifyToken(secret_key, how, base) ==
    LET token == Tamper(how, base.token, clock) IN
    /\ csrf_issued' = IF token = base.token /\ base.uses < MaxUses
                      THEN (csrf_issued \ {base})
                               \cup {[base EXCEPT !.uses = @ + 1]}
                      ELSE csrf_issued
    /\ ret' = [op |-> "verify_token", secret |-> secret_key, t |-> clock,
               token |-> token, how |-> how, base |-> base,
               result |-> VerifyTokenResult(secret_key, token, clock)]
    /\ UNCHANGED <<clock, requests, policy, pc, loc, running, log, users, api_keys,
                   issued, streak>>
    /\ UNCHANGED <<commands, hosts, index, email_tokens, password_reset_tokens, flashed, shown, trail>>

\* CSRFService(secret_key).verify_token(token), for a value no signer produced
VerifyUnsignedToken(secret_key, token) ==
    /\ ret' = [op |-> "verify_token", secret |-> secret_key, t |-> clock,
               token |-> token, how |-> "unsigned",
               base |-> [secret |-> None, t |-> 0, token |-> NoToken, uses |-> 0],
               result |-> VerifyTokenResult(secret_key, token, clock)]
    /\ UNCHANGED <<clock, requests, policy, pc, loc, running, log, users, api_keys,
                   issued, streak>>
    /\ UNCHANGED appVars

TickCsrf ==
    /\ \E t \in CsrfInstants : t > clock /\ clock' = t
    /\ UNCHANGED <<requests, policy, pc, loc, running, log>>
    /\ UNCHANGED dbVars
    /\ UNCHANGED appVars

InitCsrf ==
    /\ clock = 0
    /\ requests = <<>>
    /\ policy = <<>>
    /\ pc = [c \in Coros |-> "idle"]
    /\ loc = [c \in Coros |-> NoLocals]
    /\ running = NoCoro
    /\ log = [k \in Keys |-> <<>>]
    /\ users = <<>>
    /\ api_keys = <<>>
    /\ issued = {}
    /\ streak = <<>>
    /\ ret = NoRet
    /\ EmptyTables

NextCsrf ==
    \/ \E secret_key \in Secrets : GenerateToken(secret_key)
    \/ \E secret_key \in Secrets, how \in Tamperings, base \in csrf_issued :
          VerifyToken(secret_key, how, base)
    \/ \E secret_key \in Secrets, token \in UnsignedTokens :
          VerifyUnsignedToken(secret_key, token)
    \/ TickCsrf

SpecCsrf == InitCsrf /\ [][NextCsrf]_vars

\* C17: verify_token never raises; it returns false for a missing or empty
\* value, for a value no signer produced, for a generated token whose
\* payload, timestamp or signature bytes were altered or dropped, for a
\* token generated under another secret and for one older than 3600 seconds;
\* it returns true for a generated token of at most 3600 seconds, however
\* often that token has been submitted before.
C17_VerifyToken ==
    ret.op = "verify_token" =>
        /\ ret.result \in {"True", "False"}
        /\ ret.how = "unsigned" => ret.result = "False"
        /\ (ret.how \notin {"unsigned", "signature_reencoded"}
               /\ ret.token # ret.base.token)
              => ret.result = "False"
        /\ (ret.how # "unsigned" /\ ret.secret # ret.base.secret)
              => ret.result = "False"
        /\ (ret.how # "unsigned" /\ ret.token = ret.base.token
               /\ ret.secret = ret.base.secret)
              => (ret.result = "True" <=> ret.t - ret.base.t <= CsrfMaxAge)

\* A token generated an hour ago and submitted twice before is accepted a
\* third time.
C17_Witness ==
    /\ ret.op = "verify_token"
    /\ ret.how = "none"
    /\ ret.secret = ret.base.secret
    /\ ret.base.uses = MaxUses
    /\ ret.t - ret.base.t = CsrfMaxAge
    /\ ret.result = "True"

----------------------------------------------------------------------------
(* Tenant data: the commands and hosts tables and the search index, behind  *)
(* get_current_user                                                         *)

MaxCommands == 2

\* A text is the sequence of its pieces; quotes, backslashes and blanks are
\* pieces of their own
Quote == "\""
Apostrophe == "'"
Backslash == "\\"
Blank == " "

\* str.strip()
RECURSIVE StripLeft(_)
StripLeft(text) ==
    IF text # <<>> /\ Head(text) = Blank THEN StripLeft(Tail(text)) ELSE text
RECURSIVE StripRight(_)
StripRight(text) ==
    IF text # <<>> /\ text[Len(text)] = Blank
    THEN StripRight(SubSeq(text, 1, Len(text) - 1))
    ELSE text
Strip(text) == StripRight(StripLeft(text))

IsQuote(piece) == piece \in {Quote, Apostrophe}
NotQuote(piece) == ~IsQuote(piece)

\* str(value).strip().replace('"', "").replace("'", "")
Escape(text) == SelectSeq(Strip(text), NotQuote)

\* One element of the filter array, attribute = value
FilterEquals(attr, value) == [attr |-> attr, value |-> value]

\* The filter array of a search that forgets whose documents it may return.
SearchFilterArrayOpen(user_id, filters) == <<>>
\* SearchService.search: the filter array for user_id and the filters given.
\* A filter value is a text, <<>> when the parameter is absent; an exit code
\* is <<n>> or <<>>.
SearchFilterArray(user_id, filters) ==
    <<FilterEquals("user_id", user_id)>>
    \o (IF filters.hostname # <<>> /\ Escape(filters.hostname) # <<>>
        THEN <<FilterEquals("hostname", Escape(filters.hostname))>> ELSE <<>>)
    \o (IF filters.username # <<>> /\ Escape(filters.username) # <<>>
        THEN <<FilterEquals("username", Escape(filters.username))>> ELSE <<>>)
    \o (IF filters.exit_code # <<>>
        THEN <<FilterEquals("exit_code", filters.exit_code)>> ELSE <<>>)

\* The index reads attribute = "value" as a string literal: a backslash
\* before the closing quote leaves the literal open, a syntax error
FilterIsMalformed(f) ==
    /\ f.attr \in {"hostname", "username"}
    /\ f.value[Len(f.value)] = Backslash
FilterHolds(f, doc) == doc[f.attr] = f.value

IsPrefix(word, text) ==
    Len(word) <= Len(text) /\ SubSeq(text, 1, Len(word)) = word
\* searchableAttributes: command, hostname, username
QueryMatches(query, doc) ==
    \/ IsPrefix(query, doc.command)
    \/ IsPrefix(query, doc.hostname)
    \/ IsPrefix(query, doc.username)

NoHits == [hits |-> {}, total |-> 0]

\* SearchService.search; up is whether the index answers
Search(query, user_id, filters, up) ==
    LET filter_array == SearchFilterArray(user_id, filters)
        malformed == \E i \in 1..Len(filter_array) : FilterIsMalformed(filter_array[i])
        hits == {doc \in index :
                    /\ QueryMatches(query, doc)
                    /\ \A i \in 1..Len(filter_array) : FilterHolds(filter_array[i], doc)}
    IN
    IF ~up \/ malformed THEN NoHits
    ELSE [hits |-> hits, total |-> Cardinality(hits)]

\* SearchService.index_command: the document of a command row
Document(command) ==
    [id |-> command.id, command |-> command.command, hostname |-> command.hostname,
     username |-> command.username, exit_code |-> command.exit_code,
     timestamp |-> command.timestamp, user_id |-> Str(command.user_id)]
IndexCommand(command, up) == IF up THEN index \cup {Document(command)} ELSE index
\* SearchService.delete_command
IndexDeleteCommand(command_id, up) ==
    IF up THEN {doc \in index : doc.id # command_id} ELSE index

\* The commands table in insertion order: the id of a row is its place, and
\* db.delete leaves Gone in the place, whose id is never given again
Gone(id) ==
    [id |-> id, deleted |-> TRUE, command |-> <<>>, hostname |-> <<>>,
     username |-> <<>>, exit_code |-> <<>>, timestamp |-> <<>>, host_id |-> 0,
     user_id |-> None]
Rows(table) == {table[i] : i \in {j \in DOMAIN table : ~table[j].deleted}}

\* The hosts table in insertion order; the id of a row is its place
HostRows(table) == {table[i] : i \in DOMAIN table}

ApiCommandsMaxRequests == 1000
ApiCommandsWindowSeconds == 60
\* One history for the command ingestions of every user.
ApiCommandsKeyShared(user_id) == <<"api_commands", "u1">>
\* f"api_commands:{current_user.id}"
ApiCommandsKey(user_id) == <<"api_commands", user_id>>

\* db.query(Host).filter(Host.hostname == hostname, Host.user_id == user_id)
HostOf(hostname, user_id) ==
    {h \in HostRows(hosts) : h.hostname = hostname /\ h.user_id = user_id}
NewHost(hostname, user_id) ==
    [id |-> Len(hosts) + 1, hostname |-> hostname, user_id |-> user_id,
     is_active |-> TRUE, last_seen |-> clock]

\* db.query(Command).filter(Command.id == command_id,
\*                          Command.user_id == current_user.id)
CommandOf(command_id, user_id) ==
    {c \in Rows(commands) : c.id = command_id /\ c.user_id = user_id}

\* db.query(Host).filter(Host.id == host_id, Host.user_id == current_user.id)
HostById(host_id, user_id) ==
    {h \in HostRows(hosts) : h.id = host_id /\ h.user_id = user_id}

\* What a handler of the tenant data answers, and to whom; arg is the path
\* parameter, the query text or the payload of the request
TenantRet(op, session_token, out, status, detail, arg, items, total) ==
    [op |-> op, cookie |-> session_token, caller |-> out.user,
     status |-> status, detail |-> detail, arg |-> arg, items |-> items,
     total |-> total]

tenantFrame == <<clock, policy, pc, loc, running, log, users, issued, streak,
                 csrf_issued, email_tokens, password_reset_tokens, flashed, shown, trail>>

\* POST /api/v1/commands/
CreateCommand(x_api_key, session_token, cmd, up) ==
    LET out == AuthOutcome(x_api_key, session_token, clock)
        key == ApiCommandsKey(out.user)
        lim == IsAllowed(requests[key], clock, ApiCommandsMaxRequests,
                         ApiCommandsWindowSeconds)
        found == HostOf(cmd.hostname, out.user)
        host == IF found = {} THEN NewHost(cmd.hostname, out.user)
                ELSE CHOOSE h \in found : TRUE
        db_command == [id |-> Len(commands) + 1, deleted |-> FALSE,
                       command |-> cmd.command, hostname |-> cmd.hostname,
                       username |-> cmd.username, exit_code |-> cmd.exit_code,
                       timestamp |-> <<clock>>, host_id |-> host.id,
                       user_id |-> out.user]
    IN
    /\ Len(commands) < MaxCommands
    /\ api_keys' = AfterAuth(out)
    /\ IF out.status # 200
       THEN /\ ret' = TenantRet("create_command", session_token, out, out.status,
                                out.detail, cmd, {}, 0)
            /\ UNCHANGED <<requests, commands, hosts, index>>
       ELSE /\ requests' = [requests EXCEPT ![key] = lim.requests]
            /\ IF ~lim.allowed
               THEN /\ ret' = TenantRet("create_command", session_token, out, 429,
                                        "Rate limit exceeded. Please slow down.",
                                        cmd, {}, 0)
                    /\ UNCHANGED <<commands, hosts, index>>
               ELSE /\ hosts' = IF found = {} THEN Append(hosts, host)
                                ELSE [hosts EXCEPT ![host.id].last_seen = clock]
                    /\ commands' = Append(commands, db_command)
                    /\ index' = IndexCommand(db_command, up)
                    /\ ret' = TenantRet("create_command", session_token, out, 200,
                                        "", cmd, {Document(db_command)}, 1)
    /\ UNCHANGED tenantFrame

\* The database path of search_commands: the owner's rows the filters keep
DbQuery(user_id, request) ==
    {c \in Rows(commands) :
        /\ c.user_id = user_id
        /\ request.hostname # <<>> => c.hostname = request.hostname
        /\ request.username # <<>> => c.username = request.username
        /\ request.start_date # <<>> => c.timestamp[1] >= request.start_date[1]
        /\ request.end_date # <<>> => c.timestamp[1] <= request.end_date[1]
        /\ request.exit_code # <<>> => c.exit_code = request.exit_code}

\* GET /api/v1/commands/ (and /ui/search and /history, which call it)
SearchCommands(x_api_key, session_token, request, up) ==
    LET out == AuthOutcome(x_api_key, session_token, clock)
        search_results == Search(request.q, Str(out.user),
                                 [hostname |-> request.hostname,
                                  username |-> request.username,
                                  exit_code |-> request.exit_code], up)
        rows == DbQuery(out.user, request)
    IN
    /\ api_keys' = AfterAuth(out)
    /\ ret' = IF out.status # 200
              THEN TenantRet("search_commands", session_token, out, out.status,
                             out.detail, request.q, {}, 0)
              ELSE IF request.q # <<>>
              THEN TenantRet("search_commands", session_token, out, 200, "",
                             request.q, search_results.hits, search_results.total)
              ELSE TenantRet("search_commands", session_token, out, 200, "",
                             request.q, {Document(c) : c \in rows}, Cardinality(rows))
    /\ UNCHANGED <<requests, commands, hosts, index>>
    /\ UNCHANGED tenantFrame

\* GET /api/v1/commands/{command_id}
GetCommand(x_api_key, session_token, command_id) ==
    LET out == AuthOutcome(x_api_key, session_token, clock)
        command == CommandOf(command_id, out.user)
    IN
    /\ api_keys' = AfterAuth(out)
    /\ ret' = IF out.status # 200
              THEN TenantRet("get_command", session_token, out, out.status,
                             out.detail, command_id, {}, 0)
              ELSE IF command = {}
              THEN TenantRet("get_command", session_token, out, 404,
                             "Command not found", command_id, {}, 0)
              ELSE TenantRet("get_command", session_token, out, 200, "",
                             command_id, {Document(c) : c \in command}, 1)
    /\ UNCHANGED <<requests, commands, hosts, index>>
    /\ UNCHANGED tenantFrame

\* The body delete_command and delete_command_ui share. Neither handler
\* depends on verify_csrf_token: the token the request carries is not read,
\* and the answer records only whether it would have verified.
DeleteCommandAs(op, x_api_key, session_token, x_csrf_token, command_id, up) ==
    LET out == AuthOutcome(x_api_key, session_token, clock)
        command == CommandOf(command_id, out.user)
        csrf == [csrf |-> CsrfValid(x_csrf_token)]
    IN
    /\ api_keys' = AfterAuth(out)
    /\ IF out.status # 200
       THEN /\ ret' = csrf @@ TenantRet(op, session_token, out, out.status,
                                        out.detail, command_id, {}, 0)
            /\ UNCHANGED <<commands, index>>
       ELSE IF command = {}
       THEN /\ ret' = csrf @@ TenantRet(op, session_token, out, 404,
                                        "Command not found", command_id, {}, 0)
            /\ UNCHANGED <<commands, index>>
       ELSE /\ index' = IndexDeleteCommand(command_id, up)
            /\ commands' = [commands EXCEPT ![command_id] = Gone(command_id)]
            /\ ret' = csrf @@ TenantRet(op, session_token, out, 200, "", command_id,
                                        {Document(c) : c \in command}, 1)
    /\ UNCHANGED <<requests, hosts>>
    /\ UNCHANGED tenantFrame

\* DELETE /api/v1/commands/{command_id}
DeleteCommand(x_api_key, session_token, x_csrf_token, command_id, up) ==
    DeleteCommandAs("delete_command", x_api_key, session_token, x_csrf_token,
                    command_id, up)

\* DELETE /ui/commands/{command_id}
DeleteCommandUi(x_api_key, session_token, x_csrf_token, command_id, up) ==
    DeleteCommandAs("delete_command_ui", x_api_key, session_token, x_csrf_token,
                    command_id, up)

\* GET /api/v1/stats/: total_commands and active_hosts
GetStats(x_api_key, session_token) ==
    LET out == AuthOutcome(x_api_key, session_token, clock)
        total_commands == Cardinality({c \in Rows(commands) : c.user_id = out.user})
        active_hosts == Cardinality({h \in HostRows(hosts) :
                                        h.user_id = out.user /\ h.is_active})
    IN
    /\ api_keys' = AfterAuth(out)
    /\ ret' = IF out.status # 200
              THEN TenantRet("get_stats", session_token, out, out.status,
                             out.detail, <<>>, {}, 0)
              ELSE TenantRet("get_stats", session_token, out, 200, "", <<>>,
                             {[total_commands |-> total_commands,
                               active_hosts |-> active_hosts]}, total_commands)
    /\ UNCHANGED <<requests, commands, hosts, index>>
    /\ UNCHANGED tenantFrame

\* GET /api/v1/hosts/
ListHosts(x_api_key, session_token, active_only) ==
    LET out == AuthOutcome(x_api_key, session_token, clock)
        rows == {h \in HostRows(hosts) :
                    h.user_id = out.user /\ (active_only => h.is_active)}
    IN
    /\ api_keys' = AfterAuth(out)
    /\ ret' = IF out.status # 200
              THEN TenantRet("list_hosts", session_token, out, out.status,
                             out.detail, active_only, {}, 0)
              ELSE TenantRet("list_hosts", session_token, out, 200, "",
                             active_only, rows, Cardinality(rows))
    /\ UNCHANGED <<requests, commands, hosts, index>>
    /\ UNCHANGED tenantFrame

\* GET /api/v1/hosts/{host_id}
GetHost(x_api_key, session_token, host_id) ==
    LET out == AuthOutcome(x_api_key, session_token, clock)
        host == HostById(host_id, out.user)
    IN
    /\ api_keys' = AfterAuth(out)
    /\ ret' = IF out.status # 200
              THEN TenantRet("get_host", session_token, out, out.status,
                             out.detail, host_id, {}, 0)
              ELSE IF host = {}
              THEN TenantRet("get_host", session_token, out, 404, "Host not found",
                             host_id, {}, 0)
              ELSE TenantRet("get_host", session_token, out, 200, "", host_id,
                             host, 1)
    /\ UNCHANGED <<requests, commands, hosts, index>>
    /\ UNCHANGED tenantFrame

\* PUT /api/v1/hosts/{host_id}/deactivate
DeactivateHost(x_api_key, session_token, host_id) ==
    LET out == AuthOutcome(x_api_key, session_token, clock)
        host == HostById(host_id, out.user)
    IN
    /\ api_keys' = AfterAuth(out)
    /\ IF out.status # 200
       THEN /\ ret' = TenantRet("deactivate_host", session_token, out, out.status,
                                out.detail, host_id, {}, 0)
            /\ UNCHANGED hosts
       ELSE IF host = {}
       THEN /\ ret' = TenantRet("deactivate_host", session_token, out, 404,
                                "Host not found", host_id, {}, 0)
            /\ UNCHANGED hosts
       ELSE /\ hosts' = [hosts EXCEPT ![host_id].is_active = FALSE]
            /\ ret' = TenantRet("deactivate_host", session_token, out, 200, "",
                                host_id, host, 1)
    /\ UNCHANGED <<requests, commands, index>>
    /\ UNCHANGED tenantFrame

\* The CommandCreate payloads a client posts
Ingests ==
    {[command |-> <<"ls">>, hostname |-> <<"h1">>, username |-> <<"root">>,
      exit_code |-> <<0>>],
     [command |-> <<"rm">>, hostname |-> <<"h2">>, username |-> <<"dev">>,
      exit_code |-> <<>>]}

SearchRequest(q, hostname, username, start_date, end_date, exit_code) ==
    [q |-> q, hostname |-> hostname, username |-> username,
     start_date |-> start_date, end_date |-> end_date, exit_code |-> exit_code]

\* The query strings of GET /api/v1/commands/: no filter, a text query, each
\* filter, and hostname filters that carry quotes, blanks and a backslash
SearchRequests ==
    {SearchRequest(<<>>, <<>>, <<>>, <<>>, <<>>, <<>>),
     SearchRequest(<<"ls">>, <<>>, <<>>, <<>>, <<>>, <<>>),
     SearchRequest(<<"ls">>, <<Blank, "h1", Blank>>, <<>>, <<>>, <<>>, <<>>),
     SearchRequest(<<"ls">>, <<Quote, "h1", Quote>>, <<"root">>, <<>>, <<>>, <<0>>),
     SearchRequest(<<"ls">>, <<"h1", Backslash>>, <<>>, <<>>, <<>>, <<>>),
     SearchRequest(<<>>, <<"h1">>, <<"root">>, <<>>, <<>>, <<0>>),
     SearchRequest(<<>>, <<>>, <<>>, <<1>>, <<>>, <<>>),
     SearchRequest(<<>>, <<>>, <<>>, <<>>, <<0>>, <<>>)}

\* Whether the index answers a call: reads may fail, writes go through
IndexReads == BOOLEAN
IndexWrites == {TRUE}

\* Who asks: nobody, or the holder of a session cookie
TenantCredentials == {<<None, NoToken>>} \cup {<<None, s.token>> : s \in issued}

\* Two active users, both logged in, and empty tables. The requests of this
\* specification arrive within one second: the clock stays at 0.
InitTenant ==
    /\ clock = 0
    /\ requests = [k \in {ApiCommandsKey(uid) : uid \in UserIds} |-> <<>>]
    /\ policy = [max_requests |-> ApiCommandsMaxRequests,
                 window_seconds |-> ApiCommandsWindowSeconds]
    /\ pc = [c \in Coros |-> "idle"]
    /\ loc = [c \in Coros |-> NoLocals]
    /\ running = NoCoro
    /\ log = [k \in Keys |-> <<>>]
    /\ users = [uid \in UserIds |-> UserRow(uid, TRUE)]
    /\ api_keys = <<>>
    /\ issued = {[secret |-> ServerSecret, uid |-> uid, t |-> 0,
                  token |-> CreateSessionToken(ServerSecret, uid, 0)] : uid \in UserIds}
    /\ streak = <<>>
    /\ ret = NoRet
    /\ EmptyTables

NextTenant ==
    \/ \E cred \in TenantCredentials, cmd \in Ingests, up \in IndexWrites :
          CreateCommand(cred[1], cred[2], cmd, up)
    \/ \E cred \in TenantCredentials, request \in SearchRequests, up \in IndexReads :
          SearchCommands(cred[1], cred[2], request, up)
    \/ \E cred \in TenantCredentials, command_id \in 1..(Len(commands) + 1) :
          GetCommand(cred[1], cred[2], command_id)
    \/ \E cred \in TenantCredentials, x_csrf_token \in {NoToken} \cup FormTokens(clock),
         command_id \in 1..(Len(commands) + 1), up \in IndexWrites :
          DeleteCommand(cred[1], cred[2], x_csrf_token, command_id, up)
    \/ \E cred \in TenantCredentials, x_csrf_token \in {NoToken} \cup FormTokens(clock),
         command_id \in 1..(Len(commands) + 1), up \in IndexWrites :
          DeleteCommandUi(cred[1], cred[2], x_csrf_token, command_id, up)
    \/ \E cred \in TenantCredentials : GetStats(cred[1], cred[2])
    \/ \E cred \in TenantCredentials, active_only \in BOOLEAN :
          ListHosts(cred[1], cred[2], active_only)
    \/ \E cred \in TenantCredentials, host_id \in 1..(Len(hosts) + 1) :
          GetHost(cred[1], cred[2], host_id)
    \/ \E cred \in TenantCredentials, host_id \in 1..(Len(hosts) + 1) :
          DeactivateHost(cred[1], cred[2], host_id)

SpecTenant == InitTenant /\ [][NextTenant]_vars

CommandOps == {"create_command", "search_commands", "get_command",
               "delete_command", "delete_command_ui"}
HostOps == {"list_hosts", "get_host", "deactivate_host"}
TenantOps == CommandOps \cup HostOps \cup {"get_stats"}

\* The live command rows and the hosts that are not the user's
OthersCommands(table, me) == {c \in Rows(table) : c.user_id # me}
OthersHosts(table, me) == {h \in HostRows(table) : h.user_id # me}
OthersDocuments(docs, me) == {doc \in docs : doc.user_id # Str(me)}

TenantWrites == {"create_command", "delete_command", "delete_command_ui",
                 "deactivate_host"}

\* C16: a POST, PUT or DELETE request whose caller was authenticated by the
\* session cookie and that was carried out (answer 200, stored state written)
\* carried a CSRF token that verifies.
C16_CookieWritesNeedCsrf ==
    /\ ret.op \in TenantWrites
    /\ ret.caller # None
    /\ CookieGiven(ret.cookie)
    /\ ret.status = 200
    => "csrf" \in DOMAIN ret /\ ret.csrf

----------------------------------------------------------------------------
(* User management: create_user, create_user_admin, change_email and        *)
(* verify_email over the users, api_keys and email_verification_tokens      *)
(* tables                                                                   *)

MaxUsers == 3
MaxEmailTokens == 2
EmailTokenSeconds == 24 * 3600

\* str.lower() on the addresses a form may carry
Lower(email) == IF email = "Bob@x" THEN "bob@x" ELSE email

\* db.query(User).filter((User.username == username) | (User.email == email))
ExistingUser(username, email) ==
    {uid \in DOMAIN users :
        users[uid].username = username \/ users[uid].email = email}

\* The id of the next row of the users table
NewUserId == "u" \o ToString(Cardinality(DOMAIN users) + 1)

\* if role not in ["user", "admin", "readonly"]: role = "user"
ValidRole(role) == IF role \in {"user", "admin", "readonly"} THEN role ELSE "user"

AddUser(uid, row) ==
    [u \in DOMAIN users \cup {uid} |-> IF u = uid THEN row ELSE users[u]]

\* Whether changing user_id's email to email would make two rows share it:
\* the UNIQUE constraint of users.email, which fails the commit
EmailTaken(user_id, email) ==
    \E uid \in DOMAIN users : uid # user_id /\ users[uid].email = email

\* What a handler of this section answers: clash is whether the request got
\* past authentication and the CSRF check and asked for a username or email
\* that another user held; row and plaintext are the API key it made
UserRet(op, out, status, detail, clash, row, plaintext) ==
    [op |-> op, caller |-> out.user, status |-> status, detail |-> detail,
     clash |-> clash, row |-> row, plaintext |-> plaintext]

userFrame == <<clock, requests, policy, pc, loc, running, log, issued, streak,
               csrf_issued, commands, hosts, index, password_reset_tokens, flashed, trail>>

\* POST /api/v1/users/
CreateUser(x_api_key, session_token, user) ==
    LET out == RequireAdminOutcome(x_api_key, session_token, clock)
        existing == ExistingUser(user.username, user.email)
        n == Len(api_keys) + 1
        uid == NewUserId
        db_user == [username |-> user.username, email |-> user.email,
                    role |-> user.role, is_active |-> TRUE, password_hash |-> <<>>]
        ok == out.status = 200 /\ existing = {}
    IN
    /\ Cardinality(DOMAIN users) < MaxUsers
    /\ users' = IF ok THEN AddUser(uid, db_user) ELSE users
    /\ api_keys' = IF ok THEN Append(AfterAuth(out), NewApiKey(uid, n))
                   ELSE AfterAuth(out)
    /\ shown' = IF ok THEN Append(shown, 0) ELSE shown
    /\ ret' = IF out.status # 200
              THEN UserRet("create_user", out, out.status, out.detail, FALSE, 0, None)
              ELSE IF existing # {}
              THEN UserRet("create_user", out, 400, "User already exists", TRUE,
                           0, None)
              ELSE UserRet("create_user", out, 200, "", FALSE, n, None)
    /\ UNCHANGED email_tokens
    /\ UNCHANGED userFrame

\* POST /admin/users/new
\* form carries the fields username, email, password and role
CreateUserAdmin(x_api_key, session_token, x_csrf_token, form) ==
    LET out == RequireAdminOutcome(x_api_key, session_token, clock)
        csrf == VerifyCsrfToken(<<"admin", "users", "new">>, NoToken, x_csrf_token,
                                clock)
        existing == ExistingUser(form.username, form.email)
        n == Len(api_keys) + 1
        uid == NewUserId
        db_user == [username |-> form.username, email |-> form.email,
                    role |-> ValidRole(form.role),
                    is_active |-> TRUE,
                    password_hash |-> HashPassword(form.password, NewSalt(n))]
        ok == out.status = 200 /\ csrf /\ existing = {}
    IN
    /\ Cardinality(DOMAIN users) < MaxUsers
    /\ users' = IF ok THEN AddUser(uid, db_user) ELSE users
    /\ api_keys' = IF ok THEN Append(AfterAuth(out), NewApiKey(uid, n))
                   ELSE AfterAuth(out)
    /\ shown' = IF ok THEN Append(shown, 1) ELSE shown
    /\ ret' = IF out.status # 200
              THEN UserRet("create_user_admin", out, out.status, out.detail, FALSE,
                           0, None)
              ELSE IF ~csrf
              THEN UserRet("create_user_admin", out, 403,
                           "Invalid or missing CSRF token", FALSE, 0, None)
              ELSE IF existing # {}
              THEN UserRet("create_user_admin", out, 400, "User already exists",
                           TRUE, 0, None)
              ELSE UserRet("create_user_admin", out, 303, "", FALSE, n,
                           NewKeyValue(n))
    /\ UNCHANGED email_tokens
    /\ UNCHANGED userFrame

\* POST /account/change-email
ChangeEmail(x_api_key, session_token, x_csrf_token, new_email, password) ==
    LET out == AuthOutcome(x_api_key, session_token, clock)
        csrf == VerifyCsrfToken(<<"account", "change-email">>, NoToken,
                                x_csrf_token, clock)
        current_user == users[out.user]
        existing_user == {uid \in DOMAIN users : users[uid].email = new_email}
        verification_token ==
            [user_id |-> out.user, new_email |-> new_email,
             token |-> Len(email_tokens) + 1,
             expires_at |-> clock + EmailTokenSeconds, used_at |-> Null]
    IN
    /\ Len(email_tokens) < MaxEmailTokens
    /\ api_keys' = AfterAuth(out)
    /\ IF out.status # 200
       THEN /\ ret' = UserRet("change_email", out, out.status, out.detail, FALSE,
                              0, None)
            /\ UNCHANGED email_tokens
       ELSE IF ~csrf
       THEN /\ ret' = UserRet("change_email", out, 403,
                              "Invalid or missing CSRF token", FALSE, 0, None)
            /\ UNCHANGED email_tokens
       ELSE IF \/ current_user.password_hash = <<>>
               \/ ~VerifyPassword(password, current_user.password_hash)
       THEN /\ ret' = UserRet("change_email", out, 400,
                              "Invalid password. Please try again.",
                              EmailTaken(out.user, new_email), 0, None)
            /\ UNCHANGED email_tokens
       ELSE IF Lower(new_email) = Lower(current_user.email)
       THEN /\ ret' = UserRet("change_email", out, 400,
                              "New email must be different from your current email.",
                              EmailTaken(out.user, new_email), 0, None)
            /\ UNCHANGED email_tokens
       ELSE IF existing_user # {}
       THEN /\ ret' = UserRet("change_email", out, 400,
                              "This email address is already in use.", TRUE, 0, None)
            /\ UNCHANGED email_tokens
       ELSE /\ email_tokens' = Append(email_tokens, verification_token)
            /\ ret' = UserRet("change_email", out, 200, "", FALSE, 0, None)
    /\ UNCHANGED <<users, shown>>
    /\ UNCHANGED userFrame

\* GET /verify-email?token=...
VerifyEmail(token) ==
    LET found == {i \in DOMAIN email_tokens :
                     /\ email_tokens[i].token = token
                     /\ email_tokens[i].used_at = Null
                     /\ email_tokens[i].expires_at > clock}
        i == CHOOSE j \in found : TRUE
        verification_token == email_tokens[i]
        anonymous == [user |-> None]
    IN
    /\ IF found = {}
       THEN /\ ret' = UserRet("verify_email", anonymous, 400,
                              "Invalid or expired verification token.", FALSE, 0, None)
            /\ UNCHANGED <<users, email_tokens>>
       ELSE IF verification_token.user_id \notin DOMAIN users
       THEN /\ ret' = UserRet("verify_email", anonymous, 400, "User not found.",
                              FALSE, 0, None)
            /\ UNCHANGED <<users, email_tokens>>
       ELSE IF EmailTaken(verification_token.user_id, verification_token.new_email)
       THEN \* db.commit() raises IntegrityError, which nothing catches
            /\ ret' = UserRet("verify_email", anonymous, 500,
                              "Internal Server Error", TRUE, 0, None)
            /\ UNCHANGED <<users, email_tokens>>
       ELSE /\ users' = [users EXCEPT ![verification_token.user_id].email =
                                         verification_token.new_email]
            /\ email_tokens' = [email_tokens EXCEPT ![i].used_at = <<clock>>]
            /\ ret' = UserRet("verify_email", anonymous, 303, "", FALSE, 0, None)
    /\ UNCHANGED <<api_keys, shown>>
    /\ UNCHANGED userFrame

UserInstants == {0, EmailTokenSeconds}

TickUsers ==
    /\ \E t \in UserInstants : t > clock /\ clock' = t
    /\ UNCHANGED <<requests, policy, pc, loc, running, log>>
    /\ UNCHANGED dbVars
    /\ UNCHANGED appVars

\* The UserCreate payloads and admin forms: a free username and email, a
\* username that is taken, an email that is taken
UserCreates ==
    {[username |-> "carol", email |-> "new@x", password |-> "pw", role |-> "user"],
     [username |-> "bob", email |-> "new@x", password |-> "pw", role |-> "user"],
     [username |-> "carol", email |-> "bob@x", password |-> "pw", role |-> "root"]}

\* The addresses a change-email form may carry and the passwords with them
NewEmails == {"new@x", "alice@x", "Bob@x"}
FormPasswords == {"correct-password", "wrong-password"}

\* Who asks: nobody, or the holder of a session cookie
UserCredentials == {<<None, NoToken>>} \cup {<<None, s.token>> : s \in issued}

\* The admin bootstrap_admin created, whose key was shown to nobody, and a
\* user create_user_admin created, both logged in.
InitUsers ==
    /\ clock = 0
    /\ requests = <<>>
    /\ policy = <<>>
    /\ pc = [c \in Coros |-> "idle"]
    /\ loc = [c \in Coros |-> NoLocals]
    /\ running = NoCoro
    /\ log = [k \in Keys |-> <<>>]
    /\ users = [uid \in UserIds |-> UserRow(uid, TRUE)]
    /\ api_keys = <<NewApiKey("u1", 1), NewApiKey("u2", 2)>>
    /\ issued = {[secret |-> ServerSecret, uid |-> uid, t |-> 0,
                  token |-> CreateSessionToken(ServerSecret, uid, 0)] : uid \in UserIds}
    /\ streak = <<>>
    /\ ret = NoRet
    /\ csrf_issued = {}
    /\ commands = <<>>
    /\ hosts = <<>>
    /\ index = {}
    /\ email_tokens = <<>>
    /\ password_reset_tokens = <<>>
    /\ flashed = {}
    /\ shown = <<0, 1>>
    /\ trail = <<>>

NextUsers ==
    \/ \E cred \in UserCredentials, user \in UserCreates :
          CreateUser(cred[1], cred[2], user)
    \/ \E cred \in UserCredentials, x_csrf_token \in {NoToken} \cup FormTokens(clock),
         form \in UserCreates :
          CreateUserAdmin(cred[1], cred[2], x_csrf_token, form)
    \/ \E cred \in UserCredentials, x_csrf_token \in {NoToken} \cup FormTokens(clock),
         new_email \in NewEmails, password \in FormPasswords :
          ChangeEmail(cred[1], cred[2], x_csrf_token, new_email, password)
    \/ \E token \in 1..(Len(email_tokens) + 1) : VerifyEmail(token)
    \/ TickUsers

SpecUsers == InitUsers /\ [][NextUsers]_vars

KeyMakers == {"create_user", "create_user_admin", "create_api_key",
              "regenerate_api_key", "regenerate_user_api_key"}

\* C19: the answer of an operation that made an API key carries the
\* plaintext of that key, no other answer carries a plaintext, no key's
\* plaintext has been shown more than once, and every stored ApiKey.key is
\* the hash of its plaintext, not the plaintext.
C19_PlaintextReturnedOnce ==
    /\ ret.op \in KeyMakers /\ ret.row # 0 => ret.plaintext = NewKeyValue(ret.row)
    /\ ret.op \in KeyMakers /\ ret.row = 0 => ret.plaintext = None
    /\ \A i \in DOMAIN api_keys :
          /\ shown[i] <= 1
          /\ api_keys[i].key # NewKeyValue(i)
          /\ VerifyApiKey(NewKeyValue(i), api_keys[i].key)

UserOps == {"create_user", "create_user_admin", "change_email", "verify_email"}
UniqueUsernames ==
    \A a, b \in DOMAIN users : users[a].username = users[b].username => a = b
UniqueEmails ==
    \A a, b \in DOMAIN users : users[a].email = users[b].email => a = b

\* C20: no two users share a username, no two users share an email, and a
\* create_user, create_user_admin, change_email or verify_email request
\* whose username or email another user held was answered 400.
C20_UniqueOrRejected ==
    /\ UniqueUsernames
    /\ UniqueEmails
    /\ ret.op \in UserOps /\ ret.clash => ret.status = 400

----------------------------------------------------------------------------
(* Passwords: forgot_password, reset_password, change_password and logout   *)
(* (routers/user_ui.py) over the users and password_reset_tokens tables     *)

MaxResetTokens == 2

ForgotPasswordMaxRequests == 3
ForgotPasswordWindowSeconds == 3600
ResetTokenSeconds == 24 * 3600
MinPasswordLength == 8

ForgotPasswordKey(client_ip) == <<"forgot_password", client_ip>>

GenericMessage == "If that email address exists, a password reset link has been sent."

\* A lookup that leaves out the is_active filter.
UserByEmailAnyStatus(email) == {uid \in DOMAIN users : users[uid].email = email}

\* db.query(User).filter(User.email == email, User.is_active).first()
UserByEmail(email) ==
    {uid \in DOMAIN users : users[uid].email = email /\ users[uid].is_active}

\* secrets.token_urlsafe(32): a value no earlier token has
NewResetToken == <<"reset", Len(password_reset_tokens) + 1>>

\* A filter that leaves out used_at.is_(None).
ValidResetTokensIgnoreUsed(token, t) ==
    {i \in DOMAIN password_reset_tokens :
        /\ password_reset_tokens[i].token = token
        /\ password_reset_tokens[i].expires_at > t}

\* filter(token == token, used_at.is_(None), expires_at > datetime.utcnow())
ValidResetTokens(token, t) ==
    {i \in DOMAIN password_reset_tokens :
        /\ password_reset_tokens[i].token = token
        /\ password_reset_tokens[i].used_at = Null
        /\ password_reset_tokens[i].expires_at > t}

passwordFrame == <<policy, pc, loc, running, log, issued, streak, csrf_issued, flashed,
                   commands, hosts, index, email_tokens, shown>>

\* POST /forgot-password
ForgotPassword(client_ip, email, csrf_token, smtp_up) ==
    LET csrf == VerifyCsrfToken(<<"forgot-password">>, csrf_token, NoToken, clock)
        key == ForgotPasswordKey(client_ip)
        lim == IsAllowed(requests[key], clock, ForgotPasswordMaxRequests,
                         ForgotPasswordWindowSeconds)
        found == UserByEmail(email)
        reset_token == [user_id |-> CHOOSE uid \in found : TRUE,
                        token |-> NewResetToken,
                        expires_at |-> clock + ResetTokenSeconds, used_at |-> Null]
        Answer(allowed, status, message, created, mailed) ==
            [op |-> "forgot_password", key |-> key, csrf |-> csrf, email |-> email,
             allowed |-> allowed, status |-> status, message |-> message,
             created |-> created, mailed |-> mailed]
    IN
    /\ Len(password_reset_tokens) < MaxResetTokens
    /\ IF ~csrf
       THEN /\ ret' = Answer(FALSE, 403, "Invalid or missing CSRF token", FALSE, FALSE)
            /\ UNCHANGED <<requests, password_reset_tokens>>
       ELSE /\ requests' = [requests EXCEPT ![key] = lim.requests]
            /\ IF ~lim.allowed
               THEN /\ ret' = Answer(FALSE, 429,
                          "Too many password reset requests. Please try again later.",
                          FALSE, FALSE)
                    /\ UNCHANGED password_reset_tokens
               ELSE IF found = {}
               THEN /\ ret' = Answer(TRUE, 200, GenericMessage, FALSE, FALSE)
                    /\ UNCHANGED password_reset_tokens
               ELSE /\ password_reset_tokens' =
                          Append(password_reset_tokens, reset_token)
                    /\ ret' = Answer(TRUE, 200, GenericMessage, TRUE, smtp_up)
    /\ UNCHANGED <<clock, users, api_keys, trail>>
    /\ UNCHANGED passwordFrame

\* POST /reset-password
ResetPassword(token, password, csrf_token) ==
    LET csrf == VerifyCsrfToken(<<"reset-password">>, csrf_token, NoToken, clock)
        found == ValidResetTokens(token, clock)
        i == Min(found)
        user_id == password_reset_tokens[i].user_id
        Answer(status, error) ==
            [op |-> "reset_password", csrf |-> csrf, token |-> token,
             password |-> password, status |-> status, error |-> error]
    IN
    /\ IF ~csrf
       THEN /\ ret' = Answer(403, "Invalid or missing CSRF token")
            /\ UNCHANGED <<users, password_reset_tokens>>
       ELSE IF Len(password) < MinPasswordLength
       THEN /\ ret' = Answer(400, "Password must be at least 8 characters long.")
            /\ UNCHANGED <<users, password_reset_tokens>>
       ELSE IF found = {}
       THEN /\ ret' = Answer(400,
                 "Invalid or expired reset token. Please request a new password reset.")
            /\ UNCHANGED <<users, password_reset_tokens>>
       ELSE IF user_id \notin DOMAIN users
       THEN /\ ret' = Answer(400, "User not found.")
            /\ UNCHANGED <<users, password_reset_tokens>>
       ELSE /\ users' = [users EXCEPT ![user_id].password_hash =
                            HashPassword(password, "salt-reset")]
            /\ password_reset_tokens' =
                  [password_reset_tokens EXCEPT ![i].used_at = <<clock>>]
            /\ ret' = Answer(303, "")
    /\ UNCHANGED <<clock, requests, api_keys, trail>>
    /\ UNCHANGED passwordFrame

\* POST /account/change-password
ChangePassword(x_api_key, session_token, x_csrf_token, current_password, new_password, confirm_password) ==
    LET out == AuthOutcome(x_api_key, session_token, clock)
        csrf == VerifyCsrfToken(<<"account", "change-password">>, NoToken,
                                x_csrf_token, clock)
        current_user == users[out.user]
        Answer(status, error) ==
            [op |-> "change_password", csrf |-> csrf,
             cookie |-> session_token, caller |-> out.user, status |-> status,
             error |-> error]
    IN
    /\ api_keys' = AfterAuth(out)
    /\ IF out.status # 200
       THEN /\ ret' = Answer(out.status, out.detail)
            /\ UNCHANGED users
       ELSE IF ~csrf
       THEN /\ ret' = Answer(403, "Invalid or missing CSRF token")
            /\ UNCHANGED users
       ELSE IF \/ current_user.password_hash = <<>>
               \/ ~VerifyPassword(current_password, current_user.password_hash)
       THEN /\ ret' = Answer(400, "Invalid current password. Please try again.")
            /\ UNCHANGED users
       ELSE IF new_password # confirm_password
       THEN /\ ret' = Answer(400, "New passwords do not match.")
            /\ UNCHANGED users
       ELSE IF Len(new_password) < MinPasswordLength
       THEN /\ ret' = Answer(400, "New password must be at least 8 characters long.")
            /\ UNCHANGED users
       ELSE /\ users' = [users EXCEPT ![out.user].password_hash =
                            HashPassword(new_password, "salt-change")]
            /\ ret' = Answer(200, "Password updated successfully.")
    /\ UNCHANGED <<clock, requests, password_reset_tokens, trail>>
    /\ UNCHANGED passwordFrame

\* POST /logout: the response deletes the browser's cookie; no table and no
\* service hears of it. The trail notes which session the browser gave up.
Logout(session_token, csrf_token) ==
    LET csrf == VerifyCsrfToken(<<"logout">>, csrf_token, NoToken, clock) IN
    /\ ret' = [op |-> "logout", csrf |-> csrf, cookie |-> session_token,
               status |-> IF csrf THEN 303 ELSE 403,
               delete_cookie |-> IF csrf THEN "session" ELSE None]
    /\ trail' = IF csrf
                THEN [tok \in DOMAIN trail \cup {session_token} |->
                         IF tok = session_token THEN "logged_out" ELSE trail[tok]]
                ELSE trail
    /\ UNCHANGED <<clock, requests, users, api_keys, password_reset_tokens>>
    /\ UNCHANGED passwordFrame

\* The instants requests arrive at: the start, the last second of a session,
\* which is the first at which a reset token of the start has expired, and
\* the next
PasswordInstants == {0, SessionMaxAge, SessionMaxAge + 1}

TickPassword ==
    /\ \E t \in PasswordInstants : t > clock /\ clock' = t
    /\ UNCHANGED <<requests, policy, pc, loc, running, log>>
    /\ UNCHANGED dbVars
    /\ UNCHANGED appVars

ClientIps == {"10.0.0.1"}
Emails == {"alice@x", "bob@x", "nobody@x"}
NewPasswords == {"new-password", "short"}

\* The reset tokens a form may carry: the stored ones and one never stored
ResetTokenValues ==
    {password_reset_tokens[i].token : i \in DOMAIN password_reset_tokens}
        \cup {<<"reset", 0>>}

\* The form token of a page rendered now, or none
FormTokenNow == {NoToken, GenerateTokenValue(ServerSecret, CsrfNonce(1), clock)}

\* Two users who logged in at the start; the second has been deactivated
\* since.
InitPassword ==
    /\ clock = 0
    /\ requests = [k \in {ForgotPasswordKey(ip) : ip \in ClientIps} |-> <<>>]
    /\ policy = <<>>
    /\ pc = [c \in Coros |-> "idle"]
    /\ loc = [c \in Coros |-> NoLocals]
    /\ running = NoCoro
    /\ log = [k \in Keys |-> <<>>]
    /\ users = [uid \in UserIds |-> UserRow(uid, uid = "u1")]
    /\ api_keys = <<>>
    /\ issued = {[secret |-> ServerSecret, uid |-> uid, t |-> 0,
                  token |-> CreateSessionToken(ServerSecret, uid, 0)] : uid \in UserIds}
    /\ streak = <<>>
    /\ ret = NoRet
    /\ EmptyTables

NextPassword ==
    \/ \E client_ip \in ClientIps, email \in Emails, csrf_token \in FormTokenNow,
         smtp_up \in BOOLEAN :
          ForgotPassword(client_ip, email, csrf_token, smtp_up)
    \/ \E token \in ResetTokenValues, password \in NewPasswords,
         csrf_token \in FormTokenNow :
          ResetPassword(token, password, csrf_token)
    \/ \E s \in issued, x_csrf_token \in FormTokenNow,
         current_password \in Passwords \cup {"new-password"},
         new_password \in NewPasswords, confirm_password \in NewPasswords :
          ChangePassword(None, s.token, x_csrf_token, current_password,
                         new_password, confirm_password)
    \/ \E s \in issued, csrf_token \in FormTokenNow : Logout(s.token, csrf_token)
    \/ \E s \in issued : GetCurrentUser(None, s.token)
    \/ TickPassword

SpecPassword == InitPassword /\ [][NextPassword]_vars

\* The steps of SpecPassword that are a POST /reset-password
ResetStep ==
    /\ ret'.op = "reset_password"
    /\ ret' # ret \/ users' # users \/ password_reset_tokens' # password_reset_tokens

\* The rows of the table that carry the token value
RowsOfToken(token) ==
    {i \in DOMAIN password_reset_tokens : password_reset_tokens[i].token = token}

\* C21: a POST /reset-password that has passed the CSRF dependency answers
\* 303 exactly when the password has at least 8 characters and the token is
\* stored with used_at unset and expires_at in the future; it then sets
\* used_at and the owner's password_hash. Every other such request (unknown,
\* expired or used token, short password) answers 400 and leaves every
\* password_hash and every token row as they were. A row whose used_at is
\* set never changes again, so a token changes a password at most once.
C21_ResetOnlyOnce ==
    [][/\ \A i \in DOMAIN password_reset_tokens :
             password_reset_tokens[i].used_at # Null =>
                password_reset_tokens'[i] = password_reset_tokens[i]
       /\ (ResetStep /\ ret'.csrf) =>
             LET rows == RowsOfToken(ret'.token)
                 valid == \E i \in rows :
                             /\ password_reset_tokens[i].used_at = Null
                             /\ password_reset_tokens[i].expires_at > clock
             IN
             /\ ret'.status = 303 <=> (valid /\ Len(ret'.password) >= 8)
             /\ ret'.status = 303 =>
                   \E i \in rows :
                      /\ password_reset_tokens[i].used_at = Null
                      /\ password_reset_tokens'[i].used_at = <<clock>>
                      /\ VerifyPassword(ret'.password,
                            users'[password_reset_tokens[i].user_id].password_hash)
             /\ ret'.status # 303 =>
                   /\ ret'.status = 400
                   /\ users' = users
                   /\ password_reset_tokens' = password_reset_tokens
      ]_vars

\* A token that has changed the password is presented again, unexpired and
\* with a long enough password, and is refused.
C21_Witness ==
    /\ ret.op = "reset_password"
    /\ ret.csrf
    /\ ret.status = 400
    /\ Len(ret.password) >= 8
    /\ \E i \in RowsOfToken(ret.token) :
          /\ password_reset_tokens[i].used_at # Null
          /\ password_reset_tokens[i].expires_at > clock
          /\ VerifyPassword("new-password",
                users[password_reset_tokens[i].user_id].password_hash)

\* The issued session whose token the cookie carries
SessionOf(token) == {s \in issued : s.token = token}

\* Whether a reset token of user_id has been used
HasReset(user_id) ==
    \E i \in DOMAIN password_reset_tokens :
        /\ password_reset_tokens[i].user_id = user_id
        /\ password_reset_tokens[i].used_at # Null

\* C22: whatever logouts, password changes and password resets have
\* happened, a session token issued for a user who is active authenticates
\* that user through get_current_user as long as its age does not exceed the
\* expiry window; past the window it does not.
C22_OnlyExpiryEndsSession ==
    /\ \A s \in issued :
          users[s.uid].is_active =>
             IF clock - s.t <= SessionMaxAge
             THEN AuthOutcome(None, s.token, clock) = AuthResult(200, "", s.uid, 0)
             ELSE AuthOutcome(None, s.token, clock).status = 401
    /\ ret.op = "get_current_user" =>
          \A s \in SessionOf(ret.cookie) :
             (users[s.uid].is_active /\ ret.t - s.t <= SessionMaxAge) =>
                 ret.status = 200 /\ ret.user = s.uid

\* In the last second of its window, a session is accepted after its browser
\* has logged out and its owner's password has been reset and then changed.
C22_Witness ==
    /\ ret.op = "get_current_user"
    /\ ret.status = 200
    /\ ret.t = SessionMaxAge
    /\ Phase(ret.cookie) = "logged_out"
    /\ HasReset(ret.user)
    /\ users[ret.user].password_hash = HashPassword("new-password", "salt-change")
    /\ \E s \in SessionOf(ret.cookie) : s.t = 0 /\ s.uid = ret.user

\* The steps of SpecPassword that are a POST /forgot-password the limiter
\* admitted
ForgotStep ==
    /\ ret'.op = "forgot_password"
    /\ ret'.allowed
    /\ requests' # requests

\* C23: within the rate limit, POST /forgot-password answers 200 with the
\* generic message whether the email belongs to an active user, an inactive
\* user or nobody; one reset token, of that user, is stored when the email
\* belongs to an active user, and none, with no email sent, otherwise.
C23_ForgotPasswordAlike ==
    [][ForgotStep =>
          LET owner == {uid \in DOMAIN users :
                           users[uid].email = ret'.email /\ users[uid].is_active}
          IN
          /\ ret'.status = 200
          /\ ret'.message = GenericMessage
          /\ ret'.created <=> owner # {}
          /\ ret'.mailed => owner # {}
          /\ IF owner = {}
             THEN password_reset_tokens' = password_reset_tokens
             ELSE /\ Len(password_reset_tokens') = Len(password_reset_tokens) + 1
                  /\ SubSeq(password_reset_tokens', 1, Len(password_reset_tokens))
                        = password_reset_tokens
                  /\ LET row == password_reset_tokens'[Len(password_reset_tokens')]
                     IN  /\ row.user_id \in owner
                         /\ row.used_at = Null
                         /\ row.expires_at = clock + ResetTokenSeconds
      ]_vars

\* The email of a deactivated user, after a token was made for an active
\* one: the same answer and no new token.
C23_Witness ==
    /\ ret.op = "forgot_password"
    /\ ret.allowed
    /\ ret.email = "bob@x"
    /\ ~users["u2"].is_active
    /\ ret.status = 200
    /\ ret.message = GenericMessage
    /\ ~ret.created
    /\ Len(password_reset_tokens) = 1

----------------------------------------------------------------------------
(* The one RateLimiter of the process under its three callers: handle_login, *)
(* forgot_password and create_command                                        *)

\* The keys the callers build: f"{rate_limit_key}:{client_ip}",
\* f"forgot_password:{client_ip}" and f"api_commands:{current_user.id}"
LimiterKeys ==
    LoginKeys \cup {ForgotPasswordKey(ip) : ip \in ClientIps}
              \cup {ApiCommandsKey(uid) : uid \in UserIds}

\* The max_requests and window_seconds each caller passes with its key
PolicyOf(key) ==
    IF key[1] \in Flows
    THEN [max_requests |-> LoginMaxRequests, window_seconds |-> LoginWindowSeconds]
    ELSE IF key[1] = "forgot_password"
    THEN [max_requests |-> ForgotPasswordMaxRequests,
          window_seconds |-> ForgotPasswordWindowSeconds]
    ELSE [max_requests |-> ApiCommandsMaxRequests,
          window_seconds |-> ApiCommandsWindowSeconds]

\* rate_limiter.get_remaining(key, max_requests, window_seconds)
GetRemainingCall(key) ==
    LET left == GetRemainingHistory(requests[key], clock, PolicyOf(key).window_seconds)
    IN
    /\ requests' = [requests EXCEPT ![key] = left]
    /\ ret' = [op |-> "get_remaining", key |-> key,
               remaining |-> Remaining(left, PolicyOf(key).max_requests)]
    /\ UNCHANGED <<clock, policy, pc, loc, running, log, users, api_keys, issued,
                   streak>>
    /\ UNCHANGED appVars

\* The instants requests arrive at: one second, and the first instant at
\* which its command ingestions have left the window
LimiterInstants == {0, ApiCommandsWindowSeconds}

TickLimiter ==
    /\ \E t \in LimiterInstants : t > clock /\ clock' = t
    /\ UNCHANGED <<requests, policy, pc, loc, running, log>>
    /\ UNCHANGED dbVars
    /\ UNCHANGED appVars

\* The histories a busy first second has left: four failed logins and two
\* forgot-password requests for an unknown address from the one client IP,
\* and 999 command ingestions of the first user
BusyHistory(key) ==
    IF key = <<"login", "10.0.0.1">> THEN [i \in 1..(LoginMaxRequests - 1) |-> 0]
    ELSE IF key[1] = "forgot_password"
    THEN [i \in 1..(ForgotPasswordMaxRequests - 1) |-> 0]
    ELSE IF key = ApiCommandsKey("u1")
    THEN [i \in 1..(ApiCommandsMaxRequests - 1) |-> 0]
    ELSE <<>>

\* Two active users, both logged in, within a busy first second. The 999
\* commands, sent from host h1, have been deleted by their owner: their
\* timestamps are in the limiter, their rows are not in the table.
InitLimiter ==
    /\ clock = 0
    /\ requests = [k \in LimiterKeys |-> BusyHistory(k)]
    /\ policy = <<>>
    /\ pc = [c \in Coros |-> "idle"]
    /\ loc = [c \in Coros |-> NoLocals]
    /\ running = NoCoro
    /\ log = [k \in Keys |-> <<>>]
    /\ users = [uid \in UserIds |-> UserRow(uid, TRUE)]
    /\ api_keys = <<>>
    /\ issued = {[secret |-> ServerSecret, uid |-> uid, t |-> 0,
                  token |-> CreateSessionToken(ServerSecret, uid, 0)] : uid \in UserIds}
    /\ streak = [k \in LoginKeys |->
                    [first |-> 0, n |-> Len(BusyHistory(k)),
                     total |-> Len(BusyHistory(k))]]
    /\ ret = NoRet
    /\ csrf_issued = {}
    /\ commands = <<>>
    /\ hosts = <<[id |-> 1, hostname |-> <<"h1">>, user_id |-> "u1",
                  is_active |-> TRUE, last_seen |-> 0]>>
    /\ index = {}
    /\ email_tokens = <<>>
    /\ password_reset_tokens = <<>>
    /\ flashed = {}
    /\ shown = <<>>
    /\ trail = <<>>

\* The payload the clients post
LimiterIngests == {cmd \in Ingests : cmd.hostname = <<"h1">>}

NextLimiter ==
    \/ \E flow \in Flows, ip \in Ips :
          HandleLogin(flow, ip, "alice", "wrong-password")
    \/ \E client_ip \in ClientIps, csrf_token \in FormTokenNow :
          ForgotPassword(client_ip, "nobody@x", csrf_token, TRUE)
    \/ \E s \in issued, cmd \in LimiterIngests, up \in IndexWrites :
          CreateCommand(None, s.token, cmd, up)
    \/ \E key \in LimiterKeys : GetRemainingCall(key)
    \/ TickLimiter

SpecLimiter == InitLimiter /\ [][NextLimiter]_vars

LimiterOps == {"handle_login", "forgot_password", "create_command", "get_remaining"}

\* The key a call of the limiter was made with, read off the caller's answer
CalledKey(r) ==
    IF r.op = "create_command" THEN <<"api_commands", r.caller>> ELSE r.key

\* Whether the caller's answer says the limiter refused
Refused(r) ==
    \/ r.op = "handle_login" /\ r.status = 429
    \/ r.op = "forgot_password" /\ r.csrf /\ r.status = 429
    \/ r.op = "create_command" /\ r.status = 429

\* C25: a call of the limiter changes the history of no key but its own, so
\* the next decision on every other key is what it would have been; a
\* caller is refused only when the history of its own key is full, whatever
\* the other keys hold; and a refused command ingestion leaves the commands,
\* the hosts and the index as they were.
C25_KeysIndependent ==
    [][/\ \A k \in LimiterKeys :
             requests'[k] # requests[k] =>
                 /\ ret'.op \in LimiterOps
                 /\ CalledKey(ret') = k
       /\ (ret' # ret /\ ret'.op \in LimiterOps) =>
             \A k \in LimiterKeys \ {CalledKey(ret')} :
                 /\ requests'[k] = requests[k]
                 /\ IsAllowed(requests'[k], clock, PolicyOf(k).max_requests,
                              PolicyOf(k).window_seconds)
                      = IsAllowed(requests[k], clock, PolicyOf(k).max_requests,
                                  PolicyOf(k).window_seconds)
       /\ (ret' # ret /\ Refused(ret')) =>
             /\ Len(Prune(requests[CalledKey(ret')],
                          clock - PolicyOf(CalledKey(ret')).window_seconds))
                   >= PolicyOf(CalledKey(ret')).max_requests
             /\ commands' = commands
             /\ hosts' = hosts
             /\ index' = index
      ]_vars

\* With the login key and the first user's ingestion key exhausted, the
\* admin login and the forgot-password form have been admitted and the
\* second user's command is stored.
C25_Witness ==
    /\ ret.op = "create_command"
    /\ ret.caller = "u2"
    /\ ret.status = 200
    /\ Len(requests[ApiCommandsKey("u1")]) = ApiCommandsMaxRequests
    /\ Len(requests[<<"login", "10.0.0.1">>]) = LoginMaxRequests
    /\ streak[<<"login", "10.0.0.1">>].total = LoginMaxRequests + 1
    /\ Len(requests[<<"admin_login", "10.0.0.1">>]) = 1
    /\ Len(requests[ForgotPasswordKey("10.0.0.1")]) = ForgotPasswordMaxRequests
    /\ \E c \in Rows(commands) : c.user_id = "u2"

----------------------------------------------------------------------------
(* The three users of TimestampSigner side by side: SessionManager,         *)
(* CSRFService and FlashService, each built from settings.secret_key        *)

MaxFlash == 1

\* json.dumps({"message": message, "category": category})
JsonDumps(message, category) == <<"json", message, category>>

\* FlashService(secret_key).set_flash(message, category) at time t
SetFlashValue(secret_key, message, category, t) ==
    Sign(secret_key, JsonDumps(message, category), t)

\* FlashService(secret_key).set_flash(message, category)
SetFlash(secret_key, message, category) ==
    /\ Cardinality(flashed) < MaxFlash
    /\ LET value == SetFlashValue(secret_key, message, category, clock) IN
       /\ flashed' = flashed \cup {[secret |-> secret_key, t |-> clock,
                                    token |-> value]}
       /\ ret' = [op |-> "set_flash", secret |-> secret_key, t |-> clock,
                  token |-> value]
    /\ UNCHANGED <<clock, requests, policy, pc, loc, running, log, users, api_keys,
                   issued, streak>>
    /\ UNCHANGED <<csrf_issued, commands, hosts, index, email_tokens,
                   password_reset_tokens, shown, trail>>

\* The values the three services have returned, each with the method that
\* made it and the time it was made
Minted ==
    {[by |-> "create_session", t |-> s.t, token |-> s.token] : s \in issued}
        \cup {[by |-> "generate_token", t |-> c.t, token |-> c.token] :
                 c \in csrf_issued}
        \cup {[by |-> "set_flash", t |-> f.t, token |-> f.token] : f \in flashed}

\* One service is handed a value that any of the three has returned:
\* csrf_service.verify_token(token) or session_manager.verify_session(token)
VerifyMinted(method, m) ==
    /\ ret' = [op |-> method, t |-> clock, by |-> m.by, made |-> m.t,
               token |-> m.token,
               result |-> IF method = "verify_token"
                          THEN VerifyTokenResult(ServerSecret, m.token, clock)
                          ELSE VerifySessionResult(ServerSecret, m.token, clock)]
    /\ UNCHANGED <<clock, requests, policy, pc, loc, running, log, users, api_keys,
                   issued, streak>>
    /\ UNCHANGED appVars

FlashMessages == {<<"Email updated", "success">>}

InitTokens == InitCsrf

NextTokens ==
    \/ \E user_id \in UserIds : CreateSession(ServerSecret, user_id)
    \/ GenerateToken(ServerSecret)
    \/ \E f \in FlashMessages : SetFlash(ServerSecret, f[1], f[2])
    \/ \E method \in {"verify_token", "verify_session"}, m \in Minted :
          VerifyMinted(method, m)
    \/ TickCsrf

SpecTokens == InitTokens /\ [][NextTokens]_vars

\* C30: verify_token returns true only for a value generate_token returned,
\* and false for a session token of create_session and for a flash value of
\* set_flash; verify_session returns none for a CSRF token and for a flash
\* value.
C30_NotInterchangeable ==
    /\ (ret.op = "verify_token" /\ ret.by # "generate_token")
          => ret.result = "False"
    /\ (ret.op = "verify_session" /\ ret.by # "create_session")
          => ret.result = None

====
